---- MODULE Spec2Model ----
(***************************************************************************)
(* Model of the subspace numeric core: the signed integer types generated  *)
(* by the macros of src/num/__private/signed_integer_macros.h.             *)
(*                                                                         *)
(* A state is one call: the type T the macros are instantiated for, the    *)
(* receiver's primitive_value (self), the argument (rhs), the host's       *)
(* endianness, and after the call the operation's name and its result.     *)
(* An abort (::sus::check failing) is the result Panic.                    *)
(***************************************************************************)
EXTENDS Integers, Sequences, FiniteSets, TLC

VARIABLES
  T,            \* the instantiated type: "i8" or "i16"
  self,         \* primitive_value of the receiver
  rhs,          \* primitive_value of the argument
  little,       \* ::sus::assertions::is_little_endian() of the host
  pc,           \* "start", "bytes" (a byte array was produced) or "done"
  op,           \* name of the operation that ran
  res,          \* its result
  bytes,        \* the byte array produced by to_xx_bytes
  order,        \* which to_xx_bytes produced it: "ne", "be" or "le"
  ce,           \* std::is_constant_evaluated() in <<to_xx_bytes, from_xx_bytes>>
  frame         \* the local variables of a call that is inside its loop

vars == <<T, self, rhs, little, pc, op, res, bytes, order, ce, frame>>

-----------------------------------------------------------------------------
(* Bounds of the model *)

\* Values of a type too wide to enumerate are drawn from the neighbourhoods
\* of this radius around MIN, MAX, 0 and the powers of two in between.
EdgeWidth == 2

-----------------------------------------------------------------------------
(* The types: _sus__signed_constants *)

Types == {"i8", "i16"}

\* sizeof(T), the Bytes argument of _sus__signed_impl
SizeOf(t) == IF t = "i8" THEN 1 ELSE IF t = "i16" THEN 2 ELSE 4

\* __private::num_bits<primitive_type>()
num_bits(t) == 8 * SizeOf(t)

BITS == num_bits(T)

Pow2(n) == 2 ^ n

MIN_PRIMITIVE == -Pow2(BITS - 1)

MAX_PRIMITIVE == Pow2(BITS - 1) - 1

MinOf(t) == -Pow2(num_bits(t) - 1)

MaxOf(t) == Pow2(num_bits(t) - 1) - 1

\* static_cast<UnsignedT>(x): the two's-complement bit pattern of x
ToUnsigned(x) == x % Pow2(BITS)

\* static_cast<primitive_type>(u): the value of a bit pattern
ToSigned(u) ==
  LET m == u % Pow2(BITS)
  IN  IF m >= Pow2(BITS - 1) THEN m - Pow2(BITS) ELSE m

Abs(x) == IF x < 0 THEN -x ELSE x

\* The primitive's / and %: truncation towards zero, the remainder takes the
\* sign of the dividend. Only evaluated for r # 0.
PrimDiv(l, r) ==
  IF (l < 0) = (r < 0) THEN Abs(l) \div Abs(r) ELSE -(Abs(l) \div Abs(r))

PrimRem(l, r) == l - r * PrimDiv(l, r)

-----------------------------------------------------------------------------
(* Results *)

Panic == [tag |-> "panic", value |-> 0, overflow |-> FALSE]

None == [tag |-> "none", value |-> 0, overflow |-> FALSE]

Some(v) == [tag |-> "some", value |-> v, overflow |-> FALSE]

Value(v) == [tag |-> "value", value |-> v, overflow |-> FALSE]

Tuple(v, o) == [tag |-> "tuple", value |-> v, overflow |-> o]

NoResult == [tag |-> "unset", value |-> 0, overflow |-> FALSE]

-----------------------------------------------------------------------------
(* num/__private/intrinsics.h: the overflow-detection primitives *)

\* The op performed in a wider domain and compared with the narrow range.
add_with_overflow(x, y) ==
  LET wide == x + y
  IN  [value |-> ToSigned(wide),
       overflow |-> wide < MIN_PRIMITIVE \/ wide > MAX_PRIMITIVE]

sub_with_overflow(x, y) ==
  LET wide == x - y
  IN  [value |-> ToSigned(wide),
       overflow |-> wide < MIN_PRIMITIVE \/ wide > MAX_PRIMITIVE]

mul_with_overflow(x, y) ==
  LET wide == x * y
  IN  [value |-> ToSigned(wide),
       overflow |-> wide < MIN_PRIMITIVE \/ wide > MAX_PRIMITIVE]

\* The op performed in the unsigned domain and cast back.
intrinsic_wrapping_add(x, y) ==
  ToSigned((ToUnsigned(x) + ToUnsigned(y)) % Pow2(BITS))

\* The bound is tested before the addition is made.
intrinsic_saturating_add(x, y) ==
  IF y >= 0
  THEN IF x <= MAX_PRIMITIVE - y THEN x + y ELSE MAX_PRIMITIVE
  ELSE IF x >= MIN_PRIMITIVE - y THEN x + y ELSE MIN_PRIMITIVE

-----------------------------------------------------------------------------
(* _sus__signed_add *)

\* Mutant: the overflow flag is not looked at.
checked_add_unchecked(s, r) ==
  LET out == add_with_overflow(s, r)
  IN  Some(out.value)

checked_add(s, r) ==
  LET out == add_with_overflow(s, r)
  IN  IF ~out.overflow THEN Some(out.value) ELSE None

overflowing_add(s, r) ==
  LET o == add_with_overflow(s, r)
  IN  Tuple(o.value, o.overflow)

\* Mutant: the wrapping intrinsic is called.
saturating_add_wrapping(s, r) == Value(intrinsic_wrapping_add(s, r))

saturating_add(s, r) == Value(intrinsic_saturating_add(s, r))

\* Mutant: the saturating intrinsic is called.
wrapping_add_saturating(s, r) == Value(intrinsic_saturating_add(s, r))

wrapping_add(s, r) == Value(intrinsic_wrapping_add(s, r))

-----------------------------------------------------------------------------
(* num/__private/intrinsics.h: division *)

div_overflows(x, y) == y = 0 \/ (x = MIN_PRIMITIVE /\ y = -1)

\* The caller has checked y # 0.
div_overflows_nonzero(x, y) == x = MIN_PRIMITIVE /\ y = -1

\* Truncating division followed by a correction step. The caller has
\* checked that the division does not overflow.
intrinsic_div_euclid(x, y) ==
  LET q == PrimDiv(x, y)
  IN  IF PrimRem(x, y) >= 0 THEN q
      ELSE IF y > 0 THEN q - 1
      ELSE q + 1

intrinsic_rem_euclid(x, y) ==
  LET r == PrimRem(x, y)
  IN  IF r < 0 THEN (IF y < 0 THEN r - y ELSE r + y) ELSE r

-----------------------------------------------------------------------------
(* _sus__signed_unary_ops and _sus__signed_neg *)

operator_neg(s) ==
  IF ~(s # MIN_PRIMITIVE) THEN Panic ELSE Value(-s)

checked_neg(s) ==
  IF s # MIN_PRIMITIVE THEN Some(-s) ELSE None

overflowing_neg(s) ==
  IF s # MIN_PRIMITIVE THEN Tuple(-s, FALSE) ELSE Tuple(MIN_PRIMITIVE, TRUE)

\* Mutant: MIN is returned for MIN, as wrapping_neg does.
saturating_neg_min(s) ==
  IF s # MIN_PRIMITIVE THEN Value(-s) ELSE Value(MIN_PRIMITIVE)

saturating_neg(s) ==
  IF s # MIN_PRIMITIVE THEN Value(-s) ELSE Value(MAX_PRIMITIVE)

wrapping_neg(s) ==
  IF s # MIN_PRIMITIVE THEN Value(-s) ELSE Value(MIN_PRIMITIVE)

-----------------------------------------------------------------------------
(* _sus__signed_binary_logic_ops *)

operator_add(l, r) ==
  LET out == add_with_overflow(l, r)
  IN  IF ~(~out.overflow) THEN Panic ELSE Value(out.value)

operator_sub(l, r) ==
  LET out == sub_with_overflow(l, r)
  IN  IF ~(~out.overflow) THEN Panic ELSE Value(out.value)

operator_mul(l, r) ==
  LET out == mul_with_overflow(l, r)
  IN  IF ~(~out.overflow) THEN Panic ELSE Value(out.value)

operator_div(l, r) ==
  IF ~(r # 0) THEN Panic
  ELSE IF ~(l # MIN_PRIMITIVE \/ r # -1) THEN Panic
  ELSE Value(PrimDiv(l, r))

\* Mutant: only the zero divisor is checked.
operator_rem_zero_only(l, r) ==
  IF ~(r # 0) THEN Panic
  ELSE Value(PrimRem(l, r))

operator_rem(l, r) ==
  IF ~(r # 0) THEN Panic
  ELSE IF ~(l # MIN_PRIMITIVE \/ r # -1) THEN Panic
  ELSE Value(PrimRem(l, r))

-----------------------------------------------------------------------------
(* _sus__signed_mutable_logic_ops: the result and the receiver afterwards *)

Void == [tag |-> "void", value |-> 0, overflow |-> FALSE]

Aborted(s) == [res |-> Panic, primitive_value |-> s]

Stored(v) == [res |-> Void, primitive_value |-> v]

operator_add_assign(s, r) ==
  LET out == add_with_overflow(s, r)
  IN  IF ~(~out.overflow) THEN Aborted(s) ELSE Stored(out.value)

operator_sub_assign(s, r) ==
  LET out == sub_with_overflow(s, r)
  IN  IF ~(~out.overflow) THEN Aborted(s) ELSE Stored(out.value)

\* Mutant: the wrapped product is stored without the check.
operator_mul_assign_unchecked(s, r) ==
  LET out == mul_with_overflow(s, r)
  IN  Stored(out.value)

operator_mul_assign(s, r) ==
  LET out == mul_with_overflow(s, r)
  IN  IF ~(~out.overflow) THEN Aborted(s) ELSE Stored(out.value)

operator_div_assign(s, r) ==
  IF ~(r # 0) THEN Aborted(s)
  ELSE IF ~(s # MIN_PRIMITIVE \/ r # -1) THEN Aborted(s)
  ELSE Stored(PrimDiv(s, r))

operator_rem_assign(s, r) ==
  IF ~(r # 0) THEN Aborted(s)
  ELSE IF ~(s # MIN_PRIMITIVE \/ r # -1) THEN Aborted(s)
  ELSE Stored(PrimRem(s, r))

-----------------------------------------------------------------------------
(* _sus__signed_div *)

checked_div(s, r) ==
  IF div_overflows(s, r) THEN None ELSE Some(PrimDiv(s, r))

\* Mutant: a zero divisor is reported by the flag.
overflowing_div_flags_zero(s, r) ==
  IF ~(r # 0) THEN Tuple(MIN_PRIMITIVE, TRUE)
  ELSE IF div_overflows_nonzero(s, r) THEN Tuple(MIN_PRIMITIVE, TRUE)
  ELSE Tuple(PrimDiv(s, r), FALSE)

overflowing_div(s, r) ==
  IF ~(r # 0) THEN Panic
  ELSE IF div_overflows_nonzero(s, r) THEN Tuple(MIN_PRIMITIVE, TRUE)
  ELSE Tuple(PrimDiv(s, r), FALSE)

\* Mutant: MIN is returned on overflow, as wrapping_div does.
saturating_div_min(s, r) ==
  IF ~(r # 0) THEN Panic
  ELSE IF div_overflows_nonzero(s, r) THEN Value(MIN_PRIMITIVE)
  ELSE Value(PrimDiv(s, r))

saturating_div(s, r) ==
  IF ~(r # 0) THEN Panic
  ELSE IF div_overflows_nonzero(s, r) THEN Value(MAX_PRIMITIVE)
  ELSE Value(PrimDiv(s, r))

wrapping_div(s, r) ==
  IF ~(r # 0) THEN Panic
  ELSE IF div_overflows_nonzero(s, r) THEN Value(MIN_PRIMITIVE)
  ELSE Value(PrimDiv(s, r))

-----------------------------------------------------------------------------
(* _sus__signed_rem *)

checked_rem(s, r) ==
  IF div_overflows(s, r) THEN None ELSE Some(PrimRem(s, r))

overflowing_rem(s, r) ==
  IF ~(r # 0) THEN Panic
  ELSE IF div_overflows_nonzero(s, r) THEN Tuple(0, TRUE)
  ELSE Tuple(PrimRem(s, r), FALSE)

wrapping_rem(s, r) ==
  IF ~(r # 0) THEN Panic
  ELSE IF div_overflows_nonzero(s, r) THEN Value(0)
  ELSE Value(PrimRem(s, r))

-----------------------------------------------------------------------------
(* _sus__signed_euclid *)

\* Mutant: the quotient is truncated, not Euclidean.
div_euclid_truncating(s, r) ==
  IF ~(~div_overflows(s, r)) THEN Panic
  ELSE Value(PrimDiv(s, r))

div_euclid(s, r) ==
  IF ~(~div_overflows(s, r)) THEN Panic
  ELSE Value(intrinsic_div_euclid(s, r))

checked_div_euclid(s, r) ==
  IF div_overflows(s, r) THEN None
  ELSE Some(intrinsic_div_euclid(s, r))

overflowing_div_euclid(s, r) ==
  IF ~(r # 0) THEN Panic
  ELSE IF div_overflows_nonzero(s, r) THEN Tuple(MIN_PRIMITIVE, TRUE)
  ELSE Tuple(intrinsic_div_euclid(s, r), FALSE)

wrapping_div_euclid(s, r) ==
  IF ~(r # 0) THEN Panic
  ELSE IF div_overflows_nonzero(s, r) THEN Value(MIN_PRIMITIVE)
  ELSE Value(intrinsic_div_euclid(s, r))

rem_euclid(s, r) ==
  IF ~(~div_overflows(s, r)) THEN Panic
  ELSE Value(intrinsic_rem_euclid(s, r))

checked_rem_euclid(s, r) ==
  IF div_overflows(s, r) THEN None
  ELSE Some(intrinsic_rem_euclid(s, r))

overflowing_rem_euclid(s, r) ==
  IF ~(r # 0) THEN Panic
  ELSE IF div_overflows_nonzero(s, r) THEN Tuple(0, TRUE)
  ELSE Tuple(intrinsic_rem_euclid(s, r), FALSE)

wrapping_rem_euclid(s, r) ==
  IF ~(r # 0) THEN Panic
  ELSE IF div_overflows_nonzero(s, r) THEN Value(0)
  ELSE Value(intrinsic_rem_euclid(s, r))

-----------------------------------------------------------------------------
(* num/__private/intrinsics.h: shifts and powers *)

\* The result of an expression the language leaves undefined
Undefined == [tag |-> "undefined", value |-> 0, overflow |-> FALSE]

\* static_cast<UnsignedT>(l) << r and >> r as the machine makes them: defined
\* for r below the width only.
MachineShl(l, r) ==
  IF r < BITS THEN Value(ToSigned((ToUnsigned(l) * Pow2(r)) % Pow2(BITS)))
  ELSE Undefined

\* Mutant: the shift is made on the signed value, copies of the sign bit
\* shifted in.
MachineShr_signed(l, r) ==
  IF r < BITS THEN Value(l \div Pow2(r))
  ELSE Undefined

MachineShr(l, r) ==
  IF r < BITS THEN Value(ToSigned(ToUnsigned(l) \div Pow2(r)))
  ELSE Undefined

\* The shift amount overflows when it is >= BITS; the shift is then made by
\* the amount masked with BITS - 1, on the unsigned bit pattern.
shl_with_overflow(x, shift) ==
  [value |-> MachineShl(x, shift % BITS).value,
   overflow |-> shift >= BITS]

shr_with_overflow(x, shift) ==
  [value |-> MachineShr(x, shift % BITS).value,
   overflow |-> shift >= BITS]

\* Exponentiation by squaring; the flag collects the overflow of every
\* multiplication made.
RECURSIVE pow_loop(_, _, _, _)
pow_loop(base, exp, acc, overflow) ==
  IF exp > 1
  THEN LET a == IF exp % 2 = 1
                THEN mul_with_overflow(acc, base)
                ELSE [value |-> acc, overflow |-> FALSE]
           b == mul_with_overflow(base, base)
       IN  pow_loop(b.value, exp \div 2, a.value,
                    overflow \/ a.overflow \/ b.overflow)
  ELSE LET r == mul_with_overflow(acc, base)
       IN  [value |-> r.value, overflow |-> overflow \/ r.overflow]

pow_with_overflow(base, exp) ==
  IF exp = 0 THEN [value |-> 1, overflow |-> FALSE]
  ELSE pow_loop(base, exp, 1, FALSE)

\* __private::wrapping_pow: the same squaring loop on wrapping products
RECURSIVE wrapping_pow_loop(_, _, _)
wrapping_pow_loop(base, exp, acc) ==
  IF exp > 1
  THEN wrapping_pow_loop(ToSigned(base * base), exp \div 2,
                         IF exp % 2 = 1 THEN ToSigned(acc * base) ELSE acc)
  ELSE ToSigned(acc * base)

intrinsic_wrapping_pow(base, exp) ==
  IF exp = 0 THEN 1 ELSE wrapping_pow_loop(base, exp, 1)

-----------------------------------------------------------------------------
(* _sus__signed_abs *)

abs(s) ==
  IF ~(s # MIN_PRIMITIVE) THEN Panic
  ELSE IF s >= 0 THEN Value(s) ELSE Value(-s)

overflowing_abs(s) ==
  IF s # MIN_PRIMITIVE THEN Tuple(abs(s).value, FALSE)
  ELSE Tuple(MIN_PRIMITIVE, TRUE)

checked_abs(s) ==
  IF s # MIN_PRIMITIVE THEN Some(abs(s).value) ELSE None

saturating_abs(s) ==
  IF s # MIN_PRIMITIVE THEN abs(s) ELSE Value(MAX_PRIMITIVE)

\* The result is of the unsigned type of the same width.
unsigned_abs(s) ==
  IF s >= 0 THEN Value(ToUnsigned(s))
  ELSE Value((ToUnsigned(-(s + 1)) + 1) % Pow2(BITS))

\* Mutant: MIN is mapped to MAX.
wrapping_abs_saturating(s) ==
  IF s # MIN_PRIMITIVE THEN abs(s) ELSE Value(MAX_PRIMITIVE)

wrapping_abs(s) ==
  IF s # MIN_PRIMITIVE THEN abs(s) ELSE Value(MIN_PRIMITIVE)

-----------------------------------------------------------------------------
(* _sus__signed_sub, _sus__signed_mul, _sus__signed_shift, _sus__signed_pow *)

overflowing_sub(s, r) ==
  LET o == sub_with_overflow(s, r)
  IN  Tuple(o.value, o.overflow)

overflowing_mul(s, r) ==
  LET o == mul_with_overflow(s, r)
  IN  Tuple(o.value, o.overflow)

overflowing_shl(s, r) ==
  LET o == shl_with_overflow(s, r)
  IN  Tuple(o.value, o.overflow)

overflowing_shr(s, r) ==
  LET o == shr_with_overflow(s, r)
  IN  Tuple(o.value, o.overflow)

overflowing_pow(s, exp) ==
  LET o == pow_with_overflow(s, exp)
  IN  Tuple(o.value, o.overflow)

checked_pow(s, r) ==
  LET out == pow_with_overflow(s, r)
  IN  IF ~out.overflow THEN Some(out.value) ELSE None

wrapping_pow(s, exp) == Value(intrinsic_wrapping_pow(s, exp))

\* Mutant: the wrapped power is returned without the check.
pow_unchecked(s, r) ==
  LET out == pow_with_overflow(s, r)
  IN  Value(out.value)

pow(s, r) ==
  LET out == pow_with_overflow(s, r)
  IN  IF ~(~out.overflow) THEN Panic ELSE Value(out.value)

\* _sus__signed_binary_bit_ops: the shift is made on the unsigned bit pattern
operator_shl(l, r) ==
  IF ~(r < BITS) THEN Panic
  ELSE MachineShl(l, r)

\* Mutant: the bound of the check is off by one.
operator_shr_inclusive(l, r) ==
  IF ~(r <= BITS) THEN Panic
  ELSE MachineShr(l, r)

operator_shr(l, r) ==
  IF ~(r < BITS) THEN Panic
  ELSE MachineShr(l, r)

operator_shl_assign(s, r) ==
  IF ~(r < BITS) THEN Aborted(s)
  ELSE [res |-> IF MachineShl(s, r) = Undefined THEN Undefined ELSE Void,
        primitive_value |-> MachineShl(s, r).value]

operator_shr_assign(s, r) ==
  IF ~(r < BITS) THEN Aborted(s)
  ELSE [res |-> IF MachineShr(s, r) = Undefined THEN Undefined ELSE Void,
        primitive_value |-> MachineShr(s, r).value]

checked_shl(s, r) ==
  LET out == shl_with_overflow(s, r)
  IN  IF ~out.overflow THEN Some(out.value) ELSE None

checked_shr(s, r) ==
  LET out == shr_with_overflow(s, r)
  IN  IF ~out.overflow THEN Some(out.value) ELSE None

\* Mutant: the shift is made by the whole amount, which shifts every bit out
\* when the amount reaches the width.
wrapping_shl_unmasked(s, r) ==
  IF r < BITS THEN Value(shl_with_overflow(s, r).value) ELSE Value(0)

wrapping_shl(s, r) == Value(shl_with_overflow(s, r).value)

wrapping_shr(s, r) == Value(shr_with_overflow(s, r).value)

-----------------------------------------------------------------------------
(* _sus__signed_log *)

\* __private::leading_zeros_nonzero on a non-zero bit pattern of BITS bits
RECURSIVE bit_length(_)
bit_length(u) == IF u = 0 THEN 0 ELSE 1 + bit_length(u \div 2)

leading_zeros_nonzero(u) == BITS - bit_length(u)

\* __private::int_log10 on a positive value: the decimal digits after the first
RECURSIVE int_log10(_)
int_log10(v) == IF v < 10 THEN 0 ELSE 1 + int_log10(v \div 10)

\* Option<u32>::unwrap
unwrap(o) == IF o = None THEN Panic ELSE Value(o.value)

\* Mutant: the zeros are taken from BITS, not from BITS - 1.
checked_log2_of_width(s) ==
  IF s <= 0 THEN None
  ELSE LET zeros == leading_zeros_nonzero(ToUnsigned(s))
       IN  Some(BITS - zeros)

checked_log2(s) ==
  IF s <= 0 THEN None
  ELSE LET zeros == leading_zeros_nonzero(ToUnsigned(s))
       IN  Some(BITS - 1 - zeros)

log2(s) == unwrap(checked_log2(s))

checked_log10(s) ==
  IF s <= 0 THEN None
  ELSE Some(int_log10(s))

log10(s) == unwrap(checked_log10(s))

\* while (r >= b) { r /= b; n += 1; }
RECURSIVE checked_log_loop(_, _, _)
checked_log_loop(n, r, b) ==
  IF r >= b THEN checked_log_loop(n + 1, PrimDiv(r, b), b) ELSE n

\* Mutant: a receiver of 0 is let through.
checked_log_of_zero(s, base) ==
  IF s < 0 \/ base <= 1 THEN None
  ELSE Some(checked_log_loop(0, s, base))

checked_log(s, base) ==
  IF s <= 0 \/ base <= 1 THEN None
  ELSE Some(checked_log_loop(0, s, base))

log(s, base) == unwrap(checked_log(s, base))

-----------------------------------------------------------------------------
(* _sus__signed_endian *)

\* a | b on non-negative integers
RECURSIVE BitOr(_, _)
BitOr(a, b) ==
  IF a = 0 THEN b
  ELSE IF b = 0 THEN a
  ELSE (IF a % 2 = 1 \/ b % 2 = 1 THEN 1 ELSE 0)
       + 2 * BitOr(a \div 2, b \div 2)

\* Byte k (0 the least significant) of the bit pattern u
ByteOf(u, k) == (u \div Pow2(8 * k)) % 256

Indices == 0..(SizeOf(T) - 1)

\* ::sus::Array<uint8_t, sizeof(T)>::with_uninitialized(unsafe_fn)
Uninit == -1

with_uninitialized == [i \in Indices |-> Uninit]

\* The object representation of the bit pattern u on this host, the bytes
\* memcpy reads from a primitive at increasing addresses.
ObjectBytes(u) ==
  [i \in Indices |-> IF little THEN ByteOf(u, i)
                               ELSE ByteOf(u, SizeOf(T) - 1 - i)]

\* The bit pattern whose object representation on this host is b, what
\* memcpy into a primitive leaves in it.
ObjectValue(b) ==
  LET RECURSIVE Sum(_)
      Sum(i) ==
        IF i >= SizeOf(T) THEN 0
        ELSE b[i] * Pow2(8 * (IF little THEN i ELSE SizeOf(T) - 1 - i))
             + Sum(i + 1)
  IN  Sum(0)

\* __private::swap_bytes on the bit pattern
intrinsic_swap_bytes(u) ==
  LET RECURSIVE Sum(_)
      Sum(k) ==
        IF k >= SizeOf(T) THEN 0
        ELSE ByteOf(u, k) * Pow2(8 * (SizeOf(T) - 1 - k)) + Sum(k + 1)
  IN  Sum(0)

swap_bytes(s) == ToSigned(intrinsic_swap_bytes(ToUnsigned(s)))

is_little_endian == little

is_big_endian == ~little

from_be(x) == IF is_big_endian THEN x ELSE swap_bytes(x)

from_le(x) == IF is_little_endian THEN x ELSE swap_bytes(x)

\* Mutant: the value is left in host order.
to_be_unswapped(s) == s

to_be(s) == IF is_big_endian THEN s ELSE swap_bytes(s)

to_le(s) == IF is_little_endian THEN s ELSE swap_bytes(s)

\* The loop of the constant-evaluated branch of to_ne_bytes
RECURSIVE to_ne_bytes_loop(_, _, _)
to_ne_bytes_loop(i, uval, b) ==
  IF i < SizeOf(T)
  THEN to_ne_bytes_loop(
         i + 1,
         uval \div Pow2(8),
         IF is_little_endian
         THEN [b EXCEPT ![i] = uval % 256]
         ELSE [b EXCEPT ![SizeOf(T) - 1 - i] = uval % 256])
  ELSE b

to_ne_bytes(s, constant_evaluated) ==
  IF constant_evaluated
  THEN to_ne_bytes_loop(0, ToUnsigned(s), with_uninitialized)
  ELSE ObjectBytes(ToUnsigned(s))

to_be_bytes(s, constant_evaluated) == to_ne_bytes(to_be(s), constant_evaluated)

to_le_bytes(s, constant_evaluated) == to_ne_bytes(to_le(s), constant_evaluated)

\* The loop of the constant-evaluated branch of from_ne_bytes: byte i is
\* shifted left by sizeof(T) - 1 - i bits and or-ed into the UnsignedT val.
RECURSIVE from_ne_bytes_loop(_, _, _)
from_ne_bytes_loop(i, val, b) ==
  IF i < SizeOf(T)
  THEN from_ne_bytes_loop(
         i + 1,
         BitOr(val, b[i] * Pow2(SizeOf(T) - 1 - i)) % Pow2(BITS),
         b)
  ELSE val

from_ne_bytes(b, constant_evaluated) ==
  LET val == IF constant_evaluated
             THEN from_ne_bytes_loop(0, 0, b)
             ELSE ObjectValue(b)
  IN  ToSigned(val)

from_be_bytes(b, constant_evaluated) ==
  from_be(from_ne_bytes(b, constant_evaluated))

from_le_bytes(b, constant_evaluated) ==
  from_le(from_ne_bytes(b, constant_evaluated))

-----------------------------------------------------------------------------
(* The inputs *)

Anchors(t) ==
  {MinOf(t), MaxOf(t), 0,
   Pow2(num_bits(t) \div 2), -Pow2(num_bits(t) \div 2),
   Pow2(num_bits(t) \div 2 - 1), -Pow2(num_bits(t) \div 2 - 1)}

\* Every i8 value; the values of i16 near an anchor.
Values(t) ==
  IF t = "i8"
  THEN MinOf(t)..MaxOf(t)
  ELSE {v \in MinOf(t)..MaxOf(t) :
          \E a \in Anchors(t) : v >= a - EdgeWidth /\ v <= a + EdgeWidth}

NoBytes == <<>>

\* No call is inside a loop.
NoFrame == <<>>

InitCall ==
  /\ T \in Types
  /\ self \in Values(T)
  /\ pc = "start"
  /\ op = "none"
  /\ res = NoResult
  /\ bytes = NoBytes
  /\ order = "none"
  /\ ce = <<FALSE, FALSE>>
  /\ frame = NoFrame

\* A call with one argument on a host whose endianness does not matter.
InitBinary ==
  /\ InitCall
  /\ rhs \in Values(T)
  /\ little = TRUE

\* A call of a method: op and res are set, the receiver is left alone.
Call(name, r) ==
  /\ pc = "start"
  /\ pc' = "done"
  /\ op' = name
  /\ res' = r
  /\ UNCHANGED <<T, self, rhs, little, bytes, order, ce, frame>>

-----------------------------------------------------------------------------
(* The byte serialization: a to_xx_bytes call, then a from_xx_bytes call on  *)
(* the array it returned. Each call is constant-evaluated or not.            *)

InitBytes ==
  /\ InitCall
  /\ rhs = 0
  /\ little \in BOOLEAN

ToBytes(name, ord, b, c) ==
  /\ pc = "start"
  /\ pc' = "bytes"
  /\ op' = name
  /\ bytes' = b
  /\ order' = ord
  /\ ce' = <<c, FALSE>>
  /\ UNCHANGED <<T, self, rhs, little, res, frame>>

FromBytes(name, v, c) ==
  /\ pc = "bytes"
  /\ pc' = "done"
  /\ op' = name
  /\ res' = Value(v)
  /\ ce' = <<ce[1], c>>
  /\ UNCHANGED <<T, self, rhs, little, bytes, order, frame>>

ToNeBytes == \E c \in BOOLEAN : ToBytes("to_ne_bytes", "ne", to_ne_bytes(self, c), c)

ToBeBytes == \E c \in BOOLEAN : ToBytes("to_be_bytes", "be", to_be_bytes(self, c), c)

ToLeBytes == \E c \in BOOLEAN : ToBytes("to_le_bytes", "le", to_le_bytes(self, c), c)

FromNeBytes ==
  \E c \in BOOLEAN : FromBytes("from_ne_bytes", from_ne_bytes(bytes, c), c)

FromBeBytes ==
  \E c \in BOOLEAN : FromBytes("from_be_bytes", from_be_bytes(bytes, c), c)

FromLeBytes ==
  \E c \in BOOLEAN : FromBytes("from_le_bytes", from_le_bytes(bytes, c), c)

NextBytes ==
  \/ ToNeBytes
  \/ ToBeBytes
  \/ ToLeBytes
  \/ FromNeBytes
  \/ FromBeBytes
  \/ FromLeBytes

SpecBytes == InitBytes /\ [][NextBytes]_vars

\* The call returned normally.
Done(name) == pc = "done" /\ op = name

\* A from_xx_bytes call returned, made on the array of the matching to_xx_bytes.
RoundTrip ==
  \/ Done("from_ne_bytes") /\ order = "ne"
  \/ Done("from_be_bytes") /\ order = "be"
  \/ Done("from_le_bytes") /\ order = "le"

\* C1: for every signed value v, from_ne_bytes(to_ne_bytes(v)) = v,
\* from_be_bytes(to_be_bytes(v)) = v and from_le_bytes(to_le_bytes(v)) = v,
\* whichever of the two calls is constant-evaluated and whatever the host's
\* endianness.
C1_RoundTripEveryPath == RoundTrip => res.value = self

-----------------------------------------------------------------------------
(* The addition family *)

CheckedAdd == Call("checked_add", checked_add(self, rhs))

OverflowingAdd == Call("overflowing_add", overflowing_add(self, rhs))

SaturatingAdd == Call("saturating_add", saturating_add(self, rhs))

WrappingAdd == Call("wrapping_add", wrapping_add(self, rhs))

NextAdd == CheckedAdd \/ OverflowingAdd \/ SaturatingAdd \/ WrappingAdd

SpecAdd == InitBinary /\ [][NextAdd]_vars

InRange(x) == x >= MIN_PRIMITIVE /\ x <= MAX_PRIMITIVE

\* x and y are congruent modulo 2^BITS
SameBits(x, y) == (x - y) % Pow2(BITS) = 0

\* C3: checked_add(a, b) is none exactly when overflowing_add(a, b) reports
\* overflow, which is exactly when a + b lies outside [MIN, MAX]; otherwise
\* checked_add is some(a + b) and overflowing_add is (a + b, false).
C3_CheckedAddNoneIffOverflow ==
  /\ Done("checked_add") =>
       /\ res = (IF InRange(self + rhs) THEN Some(self + rhs) ELSE None)
       /\ (res.tag = "none") <=> overflowing_add(self, rhs).overflow
  /\ Done("overflowing_add") =>
       /\ res.tag = "tuple"
       /\ res.overflow <=> ~InRange(self + rhs)
       /\ res.overflow <=> (checked_add(self, rhs).tag = "none")
       /\ InRange(self + rhs) => res = Tuple(self + rhs, FALSE)

C3_Witness ==
  /\ Done("checked_add")
  /\ T = "i8" /\ self = 120 /\ rhs = 10
  /\ res = None

\* C4: wrapping_add(a, b) is a + b reduced modulo 2^BITS and read as two's
\* complement, and overflowing_add(a, b).value is that same value whether
\* or not the flag is set.
C4_WrappingAddModular ==
  /\ Done("wrapping_add") =>
       /\ res.tag = "value"
       /\ InRange(res.value)
       /\ SameBits(res.value, self + rhs)
  /\ Done("overflowing_add") =>
       /\ res.value = wrapping_add(self, rhs).value
       /\ InRange(res.value)
       /\ SameBits(res.value, self + rhs)

C4_Witness ==
  /\ Done("overflowing_add")
  /\ T = "i16" /\ self = MAX_PRIMITIVE /\ rhs = 1
  /\ res = Tuple(MIN_PRIMITIVE, TRUE)

\* C5: saturating_add(a, b) is MAX when a + b > MAX, MIN when a + b < MIN,
\* and the exact sum otherwise.
C5_SaturatingAdd ==
  Done("saturating_add") =>
    res = Value(IF self + rhs > MAX_PRIMITIVE THEN MAX_PRIMITIVE
                ELSE IF self + rhs < MIN_PRIMITIVE THEN MIN_PRIMITIVE
                ELSE self + rhs)

C5_Witness ==
  /\ Done("saturating_add")
  /\ self + rhs < MIN_PRIMITIVE
  /\ res = Value(MIN_PRIMITIVE)

-----------------------------------------------------------------------------
(* Negation *)

InitUnary ==
  /\ InitCall
  /\ rhs = 0
  /\ little = TRUE

OperatorNeg == Call("operator-()", operator_neg(self))

CheckedNeg == Call("checked_neg", checked_neg(self))

OverflowingNeg == Call("overflowing_neg", overflowing_neg(self))

SaturatingNeg == Call("saturating_neg", saturating_neg(self))

WrappingNeg == Call("wrapping_neg", wrapping_neg(self))

NextNeg ==
  \/ OperatorNeg
  \/ CheckedNeg
  \/ OverflowingNeg
  \/ SaturatingNeg
  \/ WrappingNeg

SpecNeg == InitUnary /\ [][NextNeg]_vars

\* C6: negation fails on MIN only: operator-() aborts iff the value is MIN,
\* checked_neg() is none iff the value is MIN, overflowing_neg(MIN) is
\* (MIN, true), wrapping_neg(MIN) is MIN and saturating_neg(MIN) is MAX; for
\* every other v the five forms return -v (with flag false / some(-v)).
C6_NegFailsOnMinOnly ==
  /\ Done("operator-()") =>
       res = (IF self = MIN_PRIMITIVE THEN Panic ELSE Value(-self))
  /\ Done("checked_neg") =>
       res = (IF self = MIN_PRIMITIVE THEN None ELSE Some(-self))
  /\ Done("overflowing_neg") =>
       res = (IF self = MIN_PRIMITIVE THEN Tuple(MIN_PRIMITIVE, TRUE)
              ELSE Tuple(-self, FALSE))
  /\ Done("wrapping_neg") =>
       res = (IF self = MIN_PRIMITIVE THEN Value(MIN_PRIMITIVE)
              ELSE Value(-self))
  /\ Done("saturating_neg") =>
       res = (IF self = MIN_PRIMITIVE THEN Value(MAX_PRIMITIVE)
              ELSE Value(-self))
  /\ (pc = "done" /\ self # MIN_PRIMITIVE) => InRange(res.value)

C6_Witness ==
  /\ Done("saturating_neg")
  /\ self = MIN_PRIMITIVE
  /\ res = Value(MAX_PRIMITIVE)

-----------------------------------------------------------------------------
(* The operators +, -, * and their compound forms *)

\* A call of a compound assignment: the receiver holds what the call left.
Assign(name, a) ==
  /\ pc = "start"
  /\ pc' = "done"
  /\ op' = name
  /\ res' = a.res
  /\ self' = a.primitive_value
  /\ UNCHANGED <<T, rhs, little, bytes, order, ce, frame>>

OperatorAdd == Call("operator+", operator_add(self, rhs))

OperatorSub == Call("operator-", operator_sub(self, rhs))

OperatorMul == Call("operator*", operator_mul(self, rhs))

OperatorAddAssign == Assign("operator+=", operator_add_assign(self, rhs))

OperatorSubAssign == Assign("operator-=", operator_sub_assign(self, rhs))

OperatorMulAssign == Assign("operator*=", operator_mul_assign(self, rhs))

NextOps ==
  \/ OperatorAdd
  \/ OperatorSub
  \/ OperatorMul
  \/ OperatorAddAssign
  \/ OperatorSubAssign
  \/ OperatorMulAssign

SpecOps == InitBinary /\ [][NextOps]_vars

\* The step is a call of operator name, whose exact result is m: it aborts
\* iff m is outside [MIN, MAX] and otherwise returns m.
OperatorStep(name, m) ==
  op' = name =>
    res' = (IF InRange(m) THEN Value(m) ELSE Panic)

\* The step is a call of the compound operator name: it aborts under the same
\* condition, leaving the receiver alone, and otherwise stores m in it.
AssignStep(name, m) ==
  op' = name =>
    IF InRange(m)
    THEN res' = Void /\ self' = m
    ELSE res' = Panic /\ self' = self

\* C7: each of +, - and * aborts exactly when the mathematical result lies
\* outside [MIN, MAX] and otherwise returns the exact result; +=, -= and *=
\* abort under the same condition and otherwise store that value in the
\* receiver.
C7_OperatorsAbortIffOutOfRange ==
  [][/\ OperatorStep("operator+", self + rhs)
     /\ OperatorStep("operator-", self - rhs)
     /\ OperatorStep("operator*", self * rhs)
     /\ AssignStep("operator+=", self + rhs)
     /\ AssignStep("operator-=", self - rhs)
     /\ AssignStep("operator*=", self * rhs)]_vars

C7_Witness ==
  /\ Done("operator*=")
  /\ T = "i8" /\ rhs = -2 /\ self = MIN_PRIMITIVE
  /\ res = Void


-----------------------------------------------------------------------------
(* Division and remainder: the checked forms and the operators *)

CheckedDiv == Call("checked_div", checked_div(self, rhs))

CheckedRem == Call("checked_rem", checked_rem(self, rhs))

OperatorDiv == Call("operator/", operator_div(self, rhs))

OperatorRem == Call("operator%", operator_rem(self, rhs))

OperatorDivAssign == Assign("operator/=", operator_div_assign(self, rhs))

OperatorRemAssign == Assign("operator%=", operator_rem_assign(self, rhs))

NextDiv ==
  \/ CheckedDiv
  \/ CheckedRem
  \/ OperatorDiv
  \/ OperatorRem
  \/ OperatorDivAssign
  \/ OperatorRemAssign

SpecDiv == InitBinary /\ [][NextDiv]_vars

\* b = 0, or a = MIN and b = -1
DivFails(a, b) == b = 0 \/ (a = MIN_PRIMITIVE /\ b = -1)

\* q is the quotient of a by b # 0 rounded towards zero
IsTruncQuot(q, a, b) ==
  /\ Abs(q) * Abs(b) <= Abs(a)
  /\ Abs(a) < (Abs(q) + 1) * Abs(b)
  /\ q # 0 => ((q > 0) <=> ((a > 0) = (b > 0)))

\* r is the remainder of that division: smaller than b in magnitude, of the
\* sign of a, and a - r is a multiple of b
IsTruncRem(r, a, b) ==
  /\ Abs(r) < Abs(b)
  /\ (a - r) % Abs(b) = 0
  /\ r # 0 => ((r > 0) <=> (a > 0))

\* C8: checked_div and checked_rem are none exactly when b = 0 or (a = MIN
\* and b = -1), and otherwise some of the truncating quotient / remainder;
\* operator/ and operator% (and /=, %=) abort under exactly that condition.
C8_DivRemFailExactly ==
  [][/\ op' = "checked_div" =>
          IF DivFails(self, rhs) THEN res' = None
          ELSE res'.tag = "some" /\ IsTruncQuot(res'.value, self, rhs)
     /\ op' = "checked_rem" =>
          IF DivFails(self, rhs) THEN res' = None
          ELSE res'.tag = "some" /\ IsTruncRem(res'.value, self, rhs)
     /\ op' = "operator/" =>
          IF DivFails(self, rhs) THEN res' = Panic
          ELSE res'.tag = "value" /\ IsTruncQuot(res'.value, self, rhs)
     /\ op' = "operator%" =>
          IF DivFails(self, rhs) THEN res' = Panic
          ELSE res'.tag = "value" /\ IsTruncRem(res'.value, self, rhs)
     /\ op' = "operator/=" =>
          IF DivFails(self, rhs) THEN res' = Panic /\ self' = self
          ELSE res' = Void /\ IsTruncQuot(self', self, rhs)
     /\ op' = "operator%=" =>
          IF DivFails(self, rhs) THEN res' = Panic /\ self' = self
          ELSE res' = Void /\ IsTruncRem(self', self, rhs)]_vars

C8_Witness ==
  /\ Done("checked_rem")
  /\ self = MIN_PRIMITIVE /\ rhs = -1
  /\ res = None

-----------------------------------------------------------------------------
(* Division and remainder: the forms that do not abort on overflow *)

OverflowingDiv == Call("overflowing_div", overflowing_div(self, rhs))

SaturatingDiv == Call("saturating_div", saturating_div(self, rhs))

WrappingDiv == Call("wrapping_div", wrapping_div(self, rhs))

OverflowingRem == Call("overflowing_rem", overflowing_rem(self, rhs))

WrappingRem == Call("wrapping_rem", wrapping_rem(self, rhs))

OverflowingDivEuclid ==
  Call("overflowing_div_euclid", overflowing_div_euclid(self, rhs))

WrappingDivEuclid ==
  Call("wrapping_div_euclid", wrapping_div_euclid(self, rhs))

OverflowingRemEuclid ==
  Call("overflowing_rem_euclid", overflowing_rem_euclid(self, rhs))

WrappingRemEuclid ==
  Call("wrapping_rem_euclid", wrapping_rem_euclid(self, rhs))

NextDivOverflow ==
  \/ OverflowingDiv
  \/ SaturatingDiv
  \/ WrappingDiv
  \/ OverflowingRem
  \/ WrappingRem
  \/ OverflowingDivEuclid
  \/ WrappingDivEuclid
  \/ OverflowingRemEuclid
  \/ WrappingRemEuclid

SpecDivOverflow == InitBinary /\ [][NextDivOverflow]_vars

OverflowInput == self = MIN_PRIMITIVE /\ rhs = -1

\* The named form returned f on MIN / -1 and, for b # 0, what the aborting
\* form ref returns on every other pair.
FixedOnOverflow(name, f, ref) ==
  Done(name) =>
    /\ OverflowInput => res = f
    /\ (~OverflowInput /\ rhs # 0) =>
         /\ ref.tag = "value"
         /\ res.value = ref.value
         /\ res.overflow = FALSE
         /\ res.tag = f.tag

\* C9: on a = MIN, b = -1: wrapping_div = MIN, wrapping_rem = 0,
\* saturating_div = MAX, overflowing_div = (MIN, true), overflowing_rem =
\* (0, true), wrapping_div_euclid = MIN and wrapping_rem_euclid = 0; on every
\* other pair with b # 0 these forms return what operator/ (resp. operator%,
\* div_euclid, rem_euclid) returns, with flag false.
C9_FixedValuesOnMinByMinusOne ==
  /\ FixedOnOverflow("wrapping_div", Value(MIN_PRIMITIVE),
                     operator_div(self, rhs))
  /\ FixedOnOverflow("wrapping_rem", Value(0), operator_rem(self, rhs))
  /\ FixedOnOverflow("saturating_div", Value(MAX_PRIMITIVE),
                     operator_div(self, rhs))
  /\ FixedOnOverflow("overflowing_div", Tuple(MIN_PRIMITIVE, TRUE),
                     operator_div(self, rhs))
  /\ FixedOnOverflow("overflowing_rem", Tuple(0, TRUE),
                     operator_rem(self, rhs))
  /\ FixedOnOverflow("wrapping_div_euclid", Value(MIN_PRIMITIVE),
                     div_euclid(self, rhs))
  /\ FixedOnOverflow("wrapping_rem_euclid", Value(0),
                     rem_euclid(self, rhs))

C9_Witness ==
  /\ Done("saturating_div")
  /\ OverflowInput
  /\ res = Value(MAX_PRIMITIVE)

-----------------------------------------------------------------------------
(* Euclidean division and remainder *)

DivEuclid == Call("div_euclid", div_euclid(self, rhs))

RemEuclid == Call("rem_euclid", rem_euclid(self, rhs))

CheckedDivEuclid == Call("checked_div_euclid", checked_div_euclid(self, rhs))

CheckedRemEuclid == Call("checked_rem_euclid", checked_rem_euclid(self, rhs))

NextEuclid ==
  \/ DivEuclid
  \/ RemEuclid
  \/ CheckedDivEuclid
  \/ CheckedRemEuclid

SpecEuclid == InitBinary /\ [][NextEuclid]_vars

\* q * b + r = a with 0 <= r < |b|, over the integers
IsEuclid(q, r, a, b) ==
  /\ q * b + r = a
  /\ 0 <= r
  /\ r < Abs(b)

\* What the call says about the identity: the quotient and the remainder the
\* two functions return for the inputs satisfy it.
EuclidIdentity ==
  LET q == div_euclid(self, rhs).value
      r == rem_euclid(self, rhs).value
  IN  /\ IsEuclid(q, r, self, rhs)
      /\ InRange(q)
      /\ InRange(r)

\* div_euclid(a, b) * b, the first step of evaluating the identity in T
EuclidProduct == div_euclid(self, rhs).value * rhs

EuclidAborts ==
  /\ Done("div_euclid") => ((res = Panic) <=> DivFails(self, rhs))
  /\ Done("rem_euclid") => ((res = Panic) <=> DivFails(self, rhs))
  /\ Done("checked_div_euclid") => ((res = None) <=> DivFails(self, rhs))
  /\ Done("checked_rem_euclid") => ((res = None) <=> DivFails(self, rhs))

EuclidValues ==
  /\ Done("div_euclid") => res = div_euclid(self, rhs)
  /\ Done("rem_euclid") => res = rem_euclid(self, rhs)
  /\ Done("checked_div_euclid") =>
       res = Some(div_euclid(self, rhs).value)
  /\ Done("checked_rem_euclid") =>
       res = Some(rem_euclid(self, rhs).value)

\* C10, as claimed: for b # 0 and (a, b) # (MIN, -1),
\* a = div_euclid(a, b) * b + rem_euclid(a, b) and 0 <= rem_euclid(a, b) < |b|
\* with no intermediate overflow; div_euclid and rem_euclid abort exactly
\* when b = 0 or (a = MIN and b = -1), and the checked forms are none
\* exactly then.
C10_EuclidIdentityNoOverflow ==
  /\ EuclidAborts
  /\ (pc = "done" /\ ~DivFails(self, rhs)) =>
       /\ EuclidValues
       /\ EuclidIdentity
       /\ InRange(EuclidProduct)

\* C10, amended: the identity and the bound on the remainder hold over the
\* integers and both results are in [MIN, MAX], but the product
\* div_euclid(a, b) * b is a - rem_euclid(a, b), which lies below MIN exactly
\* when a < MIN + rem_euclid(a, b); the abort and none conditions are as
\* claimed.
C10_EuclidIdentity ==
  /\ EuclidAborts
  /\ (pc = "done" /\ ~DivFails(self, rhs)) =>
       /\ EuclidValues
       /\ EuclidIdentity
       /\ EuclidProduct = self - rem_euclid(self, rhs).value
       /\ EuclidProduct <= MAX_PRIMITIVE
       /\ InRange(EuclidProduct) <=>
            self >= MIN_PRIMITIVE + rem_euclid(self, rhs).value

C10_Witness ==
  /\ Done("div_euclid")
  /\ T = "i8" /\ self = MIN_PRIMITIVE /\ rhs = 3
  /\ res = Value(-43)
  /\ rem_euclid(self, rhs) = Value(1)
  /\ ~InRange(EuclidProduct)

-----------------------------------------------------------------------------
(* The overflowing_* forms *)

\* A u32 argument
IsU32(x) == x >= 0

OverflowingSub == Call("overflowing_sub", overflowing_sub(self, rhs))

OverflowingMul == Call("overflowing_mul", overflowing_mul(self, rhs))

OverflowingAbs == Call("overflowing_abs", overflowing_abs(self))

OverflowingShl == IsU32(rhs) /\ Call("overflowing_shl", overflowing_shl(self, rhs))

OverflowingShr == IsU32(rhs) /\ Call("overflowing_shr", overflowing_shr(self, rhs))

OverflowingPow == IsU32(rhs) /\ Call("overflowing_pow", overflowing_pow(self, rhs))

NextOverflowing ==
  \/ OverflowingAdd
  \/ OverflowingSub
  \/ OverflowingMul
  \/ OverflowingNeg
  \/ OverflowingAbs
  \/ OverflowingDiv
  \/ OverflowingRem
  \/ OverflowingDivEuclid
  \/ OverflowingRemEuclid
  \/ OverflowingShl
  \/ OverflowingShr
  \/ OverflowingPow

SpecOverflowing == InitBinary /\ [][NextOverflowing]_vars

\* The default operator the overflowing form that ran corresponds to,
\* applied to the same inputs
DefaultForm ==
  CASE op = "overflowing_add" -> operator_add(self, rhs)
    [] op = "overflowing_sub" -> operator_sub(self, rhs)
    [] op = "overflowing_mul" -> operator_mul(self, rhs)
    [] op = "overflowing_neg" -> operator_neg(self)
    [] op = "overflowing_abs" -> abs(self)
    [] op = "overflowing_div" -> operator_div(self, rhs)
    [] op = "overflowing_rem" -> operator_rem(self, rhs)
    [] op = "overflowing_div_euclid" -> div_euclid(self, rhs)
    [] op = "overflowing_rem_euclid" -> rem_euclid(self, rhs)
    [] op = "overflowing_shl" -> operator_shl(self, rhs)
    [] op = "overflowing_shr" -> operator_shr(self, rhs)
    [] op = "overflowing_pow" -> pow(self, rhs)

DivisionForms ==
  {"overflowing_div", "overflowing_rem",
   "overflowing_div_euclid", "overflowing_rem_euclid"}

\* The form returned a pair whose flag is set exactly when the default
\* operator aborts.
ReportsByFlag ==
  /\ res.tag = "tuple"
  /\ res.overflow <=> (DefaultForm = Panic)

\* C2, as claimed: every overflowing_* operation reports each failure
\* condition of the default operator through its flag instead of aborting;
\* overflowing_div, overflowing_rem, overflowing_div_euclid and
\* overflowing_rem_euclid with rhs = 0 return (value, true) and do not abort.
C2_OverflowingNeverAborts == pc = "done" => ReportsByFlag

\* C2, amended: the same, except that the four division forms abort when
\* rhs = 0 (their only abort); with rhs # 0 they too report by the flag.
C2_OverflowingAbortsOnZeroDivisor ==
  pc = "done" =>
    IF op \in DivisionForms /\ rhs = 0
    THEN res = Panic
    ELSE ReportsByFlag

C2_Witness ==
  /\ Done("overflowing_rem_euclid")
  /\ rhs = 0
  /\ res = Panic

-----------------------------------------------------------------------------
(* The shifts *)

\* The u32 shift amounts: from 0 to past twice the width
Shifts(t) == 0..(2 * num_bits(t) + EdgeWidth)

InitShift ==
  /\ InitCall
  /\ rhs \in Shifts(T)
  /\ little = TRUE

CheckedShl == Call("checked_shl", checked_shl(self, rhs))

CheckedShr == Call("checked_shr", checked_shr(self, rhs))

WrappingShl == Call("wrapping_shl", wrapping_shl(self, rhs))

WrappingShr == Call("wrapping_shr", wrapping_shr(self, rhs))

OperatorShl == Call("operator<<", operator_shl(self, rhs))

OperatorShr == Call("operator>>", operator_shr(self, rhs))

OperatorShlAssign == Assign("operator<<=", operator_shl_assign(self, rhs))

OperatorShrAssign == Assign("operator>>=", operator_shr_assign(self, rhs))

NextShift ==
  \/ CheckedShl
  \/ CheckedShr
  \/ OverflowingShl
  \/ OverflowingShr
  \/ WrappingShl
  \/ WrappingShr
  \/ OperatorShl
  \/ OperatorShr
  \/ OperatorShlAssign
  \/ OperatorShrAssign

SpecShift == InitShift /\ [][NextShift]_vars

ShiftOperators == {"operator<<", "operator>>", "operator<<=", "operator>>="}

\* C11: checked_shl and checked_shr return none exactly when rhs >= BITS,
\* overflowing_shl and overflowing_shr set their flag exactly when
\* rhs >= BITS, operator<<, operator>>, operator<<= and operator>>= abort
\* exactly when rhs >= BITS, and no call makes a machine shift by an amount
\* of BITS or more.
C11_ShiftFailsIffAmountTooLarge ==
  pc = "done" =>
    /\ res.tag # "undefined"
    /\ op \in {"checked_shl", "checked_shr"} =>
         /\ res.tag \in {"none", "some"}
         /\ (res = None) <=> (rhs >= BITS)
    /\ op \in {"overflowing_shl", "overflowing_shr"} =>
         /\ res.tag = "tuple"
         /\ res.overflow <=> (rhs >= BITS)
    /\ op \in ShiftOperators =>
         /\ res.tag \in {"panic", "value", "void"}
         /\ (res = Panic) <=> (rhs >= BITS)

C11_Witness ==
  /\ Done("operator>>=")
  /\ rhs = BITS
  /\ res = Panic

\* v shifted left by k bits and truncated to BITS bits
IsShlBy(v, k, x) == InRange(v) /\ SameBits(v, x * Pow2(k))

\* v is the bit pattern of x shifted right by k bits, zeros shifted in
IsShrBy(v, k, x) ==
  /\ InRange(v)
  /\ ToUnsigned(v) * Pow2(k) <= ToUnsigned(x)
  /\ ToUnsigned(x) < (ToUnsigned(v) + 1) * Pow2(k)

\* C12: wrapping_shl(rhs) is the receiver shifted left by rhs mod BITS and
\* truncated to BITS bits, wrapping_shr(rhs) is the receiver shifted right by
\* rhs mod BITS, so that an amount and the amount plus BITS give the same
\* result; overflowing_shl and overflowing_shr return that same value next
\* to their flag.
C12_WrappingShiftMasksAmount ==
  /\ Done("wrapping_shl") =>
       /\ res.tag = "value"
       /\ IsShlBy(res.value, rhs % BITS, self)
       /\ res = wrapping_shl(self, rhs + BITS)
  /\ Done("wrapping_shr") =>
       /\ res.tag = "value"
       /\ IsShrBy(res.value, rhs % BITS, self)
       /\ res = wrapping_shr(self, rhs + BITS)
  /\ Done("overflowing_shl") =>
       /\ res.tag = "tuple"
       /\ IsShlBy(res.value, rhs % BITS, self)
       /\ res.value = wrapping_shl(self, rhs).value
  /\ Done("overflowing_shr") =>
       /\ res.tag = "tuple"
       /\ IsShrBy(res.value, rhs % BITS, self)
       /\ res.value = wrapping_shr(self, rhs).value

C12_Witness ==
  /\ Done("wrapping_shl")
  /\ self = 3
  /\ rhs = BITS + 1
  /\ res = Value(6)

-----------------------------------------------------------------------------
(* _sus__signed_from: the conversion from another integer type *)

SignedSources == {"i8", "i16", "i32"}

UnsignedSources == {"u8", "u16"}

\* __private::num_bits of the source's primitive type
SourceBits(S) ==
  CASE S \in {"i8", "u8"} -> 8
    [] S \in {"i16", "u16"} -> 16
    [] S = "i32" -> 32

\* S::MIN_PRIMITIVE and S::MAX_PRIMITIVE, computed without leaving 32 bits
SourceMin(S) ==
  IF S \in UnsignedSources
  THEN 0
  ELSE (0 - Pow2(SourceBits(S) - 2)) - Pow2(SourceBits(S) - 2)

SourceMax(S) ==
  IF S \in UnsignedSources
  THEN Pow2(SourceBits(S)) - 1
  ELSE (Pow2(SourceBits(S) - 2) - 1) * 2 + 1

\* An argument of type S
Arg(S, v) == [type |-> S, primitive_value |-> v]

\* Mutant: only the upper bound is checked.
from_signed_upper_only(s) ==
  IF MAX_PRIMITIVE < SourceMax(s.type) /\ ~(s.primitive_value <= MAX_PRIMITIVE)
  THEN Panic
  ELSE Value(ToSigned(s.primitive_value))

\* from(S s), S signed: each check is compiled in when the source's bound
\* lies beyond T's
from_signed(s) ==
  IF MIN_PRIMITIVE > SourceMin(s.type) /\ ~(s.primitive_value >= MIN_PRIMITIVE)
  THEN Panic
  ELSE IF MAX_PRIMITIVE < SourceMax(s.type)
          /\ ~(s.primitive_value <= MAX_PRIMITIVE)
  THEN Panic
  ELSE Value(ToSigned(s.primitive_value))

\* from(U u), U unsigned: umax is MAX_PRIMITIVE converted to U's primitive
from_unsigned(u) ==
  LET umax == MAX_PRIMITIVE % Pow2(SourceBits(u.type))
  IN  IF umax < SourceMax(u.type) /\ ~(u.primitive_value <= umax)
      THEN Panic
      ELSE Value(ToSigned(u.primitive_value))

\* The values a source is tried at: the bounds of every type and 0
SourceAnchors(S) ==
  {a \in {SourceMin(S), SourceMax(S), 0,
          MinOf("i8"), MaxOf("i8"), MinOf("i16"), MaxOf("i16"),
          Pow2(num_bits("i8")) - 1, Pow2(num_bits("i16")) - 1} :
     a >= SourceMin(S) /\ a <= SourceMax(S)}

\* The values of lo..hi within EdgeWidth of a
Near(a, lo, hi) ==
  {a + d : d \in {e \in -EdgeWidth..EdgeWidth :
                    IF e < 0 THEN a >= lo - e ELSE a <= hi - e}}

SourceValues(S) ==
  IF SourceBits(S) = 8
  THEN SourceMin(S)..SourceMax(S)
  ELSE UNION {Near(a, SourceMin(S), SourceMax(S)) : a \in SourceAnchors(S)}

InitFrom ==
  /\ InitCall
  /\ self = 0
  /\ \E S \in SignedSources \cup UnsignedSources :
       rhs \in {Arg(S, v) : v \in SourceValues(S)}
  /\ little = TRUE

FromSigned ==
  /\ rhs.type \in SignedSources
  /\ Call("from", from_signed(rhs))

FromUnsigned ==
  /\ rhs.type \in UnsignedSources
  /\ Call("from", from_unsigned(rhs))

NextFrom ==
  \/ FromSigned
  \/ FromUnsigned

SpecFrom == InitFrom /\ [][NextFrom]_vars

\* C13: T::from(s) aborts exactly when the numeric value of s lies outside
\* [T::MIN, T::MAX] and otherwise returns a T of the same numeric value, for
\* every signed and unsigned source type: a bound check left out at compile
\* time never lets a value out of range through.
C13_FromAbortsIffOutOfRange ==
  Done("from") =>
    IF InRange(rhs.primitive_value)
    THEN res = Value(rhs.primitive_value)
    ELSE res = Panic

C13_Witness ==
  /\ Done("from")
  /\ T = "i16"
  /\ rhs = Arg("u16", MAX_PRIMITIVE + 1)
  /\ res = Panic

-----------------------------------------------------------------------------
(* The order of the bytes of to_xx_bytes *)

\* The array a to_xx_bytes call returned holds at each index i the byte of
\* the receiver's bit pattern that f gives.
BytesAre(f(_)) ==
  /\ DOMAIN bytes = Indices
  /\ \A i \in Indices : bytes[i] = ByteOf(ToUnsigned(self), f(i))

\* C14: on either host and on either evaluation path, to_be_bytes(v)[i] is
\* byte N - 1 - i of v and to_le_bytes(v)[i] is byte i of v (byte 0 the least
\* significant, N = sizeof(T)); to_ne_bytes(v) is to_le_bytes(v) on a
\* little-endian host and to_be_bytes(v) on a big-endian host.
C14_BytesOrder ==
  pc = "bytes" =>
    LET be(i) == SizeOf(T) - 1 - i
        le(i) == i
    IN  /\ order = "be" => BytesAre(be)
        /\ order = "le" => BytesAre(le)
        /\ order = "ne" =>
             /\ little => BytesAre(le) /\ bytes = to_le_bytes(self, ce[1])
             /\ ~little => BytesAre(be) /\ bytes = to_be_bytes(self, ce[1])

C14_Witness ==
  /\ pc = "bytes"
  /\ op = "to_be_bytes"
  /\ T = "i16"
  /\ little
  /\ self = Pow2(8) + 2
  /\ bytes[0] = 1
  /\ bytes[1] = 2

-----------------------------------------------------------------------------
(* The absolute value *)

AbsCall == Call("abs", abs(self))

CheckedAbs == Call("checked_abs", checked_abs(self))

SaturatingAbs == Call("saturating_abs", saturating_abs(self))

UnsignedAbs == Call("unsigned_abs", unsigned_abs(self))

WrappingAbs == Call("wrapping_abs", wrapping_abs(self))

NextAbs ==
  \/ AbsCall
  \/ CheckedAbs
  \/ OverflowingAbs
  \/ SaturatingAbs
  \/ UnsignedAbs
  \/ WrappingAbs

SpecAbs == InitUnary /\ [][NextAbs]_vars

\* The result the form that ran gives for MIN
AbsOfMin ==
  CASE op = "abs" -> Panic
    [] op = "checked_abs" -> None
    [] op = "overflowing_abs" -> Tuple(MIN_PRIMITIVE, TRUE)
    [] op = "saturating_abs" -> Value(MAX_PRIMITIVE)
    [] op = "wrapping_abs" -> Value(MIN_PRIMITIVE)

\* The result the form that ran gives when it returns the magnitude m
AbsOfOther(m) ==
  CASE op = "abs" -> Value(m)
    [] op = "checked_abs" -> Some(m)
    [] op = "overflowing_abs" -> Tuple(m, FALSE)
    [] op = "saturating_abs" -> Value(m)
    [] op = "wrapping_abs" -> Value(m)

\* C15: unsigned_abs never aborts and returns exactly |v|, also for v = MIN
\* where |v| = 2^(BITS-1); abs aborts exactly for v = MIN; for v = MIN
\* checked_abs is none, overflowing_abs is (MIN, true), saturating_abs is MAX
\* and wrapping_abs is MIN; for every other v each form returns |v|.
C15_AbsForms ==
  pc = "done" =>
    IF op = "unsigned_abs"
    THEN /\ res = Value(Abs(self))
         /\ self = MIN_PRIMITIVE => res.value = Pow2(BITS - 1)
    ELSE IF self = MIN_PRIMITIVE
    THEN res = AbsOfMin
    ELSE res = AbsOfOther(Abs(self)) /\ InRange(res.value)

C15_Witness ==
  /\ Done("unsigned_abs")
  /\ self = MIN_PRIMITIVE
  /\ res = Value(MAX_PRIMITIVE + 1)

-----------------------------------------------------------------------------
(* abs_diff *)

\* The range of int, the type primitive_value - r.primitive_value is computed
\* in when primitive_type is no wider than int
IntMin == SourceMin("i32")

IntMax == SourceMax("i32")

\* a - b in int: undefined when the difference leaves the range of int
int_sub(a, b) ==
  IF (b < 0 /\ a > IntMax + b) \/ (b > 0 /\ a < IntMin + b)
  THEN Undefined
  ELSE Value(a - b)

\* static_cast<UnsignedT>(d) of a defined difference
abs_diff_cast(d) ==
  IF d = Undefined THEN Undefined
  ELSE IF d.value >= 0 THEN d
  ELSE Value(ToUnsigned(d.value))

abs_diff(s, r) ==
  IF s >= r
  THEN abs_diff_cast(int_sub(s, r))
  ELSE abs_diff_cast(int_sub(r, s))

\* i32 is the narrowest type whose differences do not all fit in int
AbsDiffTypes == Types \cup {"i32"}

InitAbsDiff ==
  /\ T \in AbsDiffTypes
  /\ self \in SourceValues(T)
  /\ rhs \in SourceValues(T)
  /\ little = TRUE
  /\ pc = "start"
  /\ op = "none"
  /\ res = NoResult
  /\ bytes = NoBytes
  /\ order = "none"
  /\ ce = <<FALSE, FALSE>>
  /\ frame = NoFrame

AbsDiff == Call("abs_diff", abs_diff(self, rhs))

NextAbsDiff == AbsDiff

SpecAbsDiff == InitAbsDiff /\ [][NextAbsDiff]_vars

\* C16: a.abs_diff(b) returns exactly |a - b| as a value of the unsigned type
\* of the same width, with no signed subtraction overflowing on the way and
\* without aborting, also for a = MAX and b = MIN.
C16_AbsDiffExact ==
  Done("abs_diff") =>
    /\ res.tag = "value"
    /\ res.value >= 0
    /\ IF self >= rhs
       THEN res.value + rhs = self
       ELSE res.value + self = rhs

-----------------------------------------------------------------------------
(* The logarithms *)

CheckedLog == Call("checked_log", checked_log(self, rhs))

Log == Call("log", log(self, rhs))

CheckedLog2 == Call("checked_log2", checked_log2(self))

Log2 == Call("log2", log2(self))

CheckedLog10 == Call("checked_log10", checked_log10(self))

Log10 == Call("log10", log10(self))

NextLog ==
  \/ CheckedLog
  \/ Log
  \/ CheckedLog2
  \/ Log2
  \/ CheckedLog10
  \/ Log10

SpecLog == InitBinary /\ [][NextLog]_vars

\* base^n <= x < base^(n+1)
IsFloorLog(n, base, x) == n >= 0 /\ base ^ n <= x /\ x < base ^ (n + 1)

\* C17: checked_log(base) is none exactly when self <= 0 or base <= 1 and
\* otherwise some(n) with base^n <= self < base^(n+1); checked_log2 and
\* checked_log10 are none exactly when self <= 0; log, log2 and log10 abort
\* exactly when their checked form is none.
C17_LogNoneIffOutOfDomain ==
  /\ Done("checked_log") =>
       IF self <= 0 \/ rhs <= 1
       THEN res = None
       ELSE res.tag = "some" /\ IsFloorLog(res.value, rhs, self)
  /\ Done("checked_log2") =>
       /\ res.tag \in {"none", "some"}
       /\ (res = None) <=> (self <= 0)
  /\ Done("checked_log10") =>
       /\ res.tag \in {"none", "some"}
       /\ (res = None) <=> (self <= 0)
  /\ Done("log") =>
       /\ res.tag \in {"panic", "value"}
       /\ (res = Panic) <=> (checked_log(self, rhs) = None)
       /\ (res = Panic) <=> (self <= 0 \/ rhs <= 1)
  /\ Done("log2") =>
       /\ res.tag \in {"panic", "value"}
       /\ (res = Panic) <=> (checked_log2(self) = None)
       /\ (res = Panic) <=> (self <= 0)
  /\ Done("log10") =>
       /\ res.tag \in {"panic", "value"}
       /\ (res = Panic) <=> (checked_log10(self) = None)
       /\ (res = Panic) <=> (self <= 0)

C17_Witness ==
  /\ Done("checked_log")
  /\ self = MAX_PRIMITIVE
  /\ rhs = 2
  /\ res = Some(BITS - 2)

-----------------------------------------------------------------------------
(* The powers *)

\* The u32 exponents: from 0 to past twice the width
Exponents(t) == 0..(2 * num_bits(t) + EdgeWidth)

InitPow ==
  /\ InitCall
  /\ rhs \in Exponents(T)
  /\ little = TRUE

PowCall == Call("pow", pow(self, rhs))

CheckedPow == Call("checked_pow", checked_pow(self, rhs))

WrappingPow == Call("wrapping_pow", wrapping_pow(self, rhs))

NextPow ==
  \/ PowCall
  \/ CheckedPow
  \/ OverflowingPow
  \/ WrappingPow

SpecPow == InitPow /\ [][NextPow]_vars

\* What stands for a power of magnitude above 2^(BITS-1)
TooLarge == Pow2(BITS)

\* v^e by e multiplications, or TooLarge once the magnitude has passed
\* 2^(BITS-1), after which it only grows
RECURSIVE MathPow(_, _)
MathPow(v, e) ==
  IF e = 0 THEN 1
  ELSE LET p == MathPow(v, e - 1)
       IN  IF p = TooLarge \/ Abs(p * v) > Pow2(BITS - 1)
           THEN TooLarge
           ELSE p * v

\* The representative in [MIN, MAX] of v^e modulo 2^BITS
RECURSIVE ModPow(_, _)
ModPow(v, e) == IF e = 0 THEN 1 ELSE ToSigned(ModPow(v, e - 1) * v)

\* C18: checked_pow is none exactly when overflowing_pow sets its flag,
\* which is exactly when v^e lies outside [MIN, MAX], and pow aborts under
\* the same condition; otherwise each returns v^e exactly, with v^0 = 1;
\* wrapping_pow returns v^e modulo 2^BITS.
C18_PowOverflowIffOutOfRange ==
  LET p == MathPow(self, rhs)
  IN  /\ Done("checked_pow") =>
           res = IF InRange(p) THEN Some(p) ELSE None
      /\ Done("overflowing_pow") =>
           /\ res.tag = "tuple"
           /\ res.overflow <=> ~InRange(p)
           /\ InRange(p) => res.value = p
           /\ res.overflow <=> (checked_pow(self, rhs) = None)
      /\ Done("pow") =>
           res = IF InRange(p) THEN Value(p) ELSE Panic
      /\ Done("wrapping_pow") =>
           res = Value(ModPow(self, rhs))
      /\ pc = "done" /\ rhs = 0 /\ op # "overflowing_pow" => res.value = 1

C18_Witness ==
  /\ Done("checked_pow")
  /\ self = -2
  /\ rhs = BITS - 1
  /\ res = Some(MIN_PRIMITIVE)

-----------------------------------------------------------------------------
(* The floating point types: f32 *)

\* f32::MANTISSA_DIGITS and f32::MAX_EXP
MANTISSA_DIGITS == 24

MAX_EXP == 128

\* The stored mantissa, without the implicit leading digit
MantissaBits == MANTISSA_DIGITS - 1

MantissaMax == Pow2(MantissaBits) - 1

\* The highest mantissa bit: set in a quiet NaN, clear in a signaling NaN
QuietBit == Pow2(MantissaBits - 1)

\* The exponent field of infinities and NaNs, and of 1.0
ExponentMax == 2 * MAX_EXP - 1

ExponentBias == MAX_EXP - 1

\* A bit pattern: its sign bit, exponent field and mantissa field
Float(s, e, m) == [sign |-> s, exp |-> e, mant |-> m]

\* The patterns tried: the least and greatest exponent and mantissa fields
\* of every class, both signs
Floats ==
  {Float(s, e, m) :
     s \in {0, 1},
     e \in {0, 1, ExponentBias, ExponentMax - 1, ExponentMax},
     m \in {0, 1, QuietBit - 1, QuietBit, QuietBit + 1, MantissaMax}}

\* The bits below the sign bit, as an integer
Magnitude(x) == x.exp * Pow2(MantissaBits) + x.mant

\* __private::float_is_nan
float_is_nan(x) == x.exp = ExponentMax /\ x.mant # 0

\* __private::float_strong_ordering, the totalOrder predicate of IEEE 754:
\* the bit patterns compared as signed integers after the bits below the
\* sign bit of a negative pattern are inverted
TotalOrderKey(x) ==
  IF x.sign = 1 THEN IntMin + (IntMax - Magnitude(x)) ELSE Magnitude(x)

float_strong_ordering(l, r) ==
  IF TotalOrderKey(l) < TotalOrderKey(r) THEN "less"
  ELSE IF TotalOrderKey(l) = TotalOrderKey(r) THEN "equal"
  ELSE "greater"

\* The primitive's value on a scale that keeps the order of the numbers:
\* -0 and +0 coincide. Not evaluated for a NaN.
Scale(x) == IF x.sign = 1 THEN -Magnitude(x) ELSE Magnitude(x)

\* l <= r, l < r and l <=> r on the primitives: false, or unordered, when
\* either is NaN
float_le(l, r) == ~float_is_nan(l) /\ ~float_is_nan(r) /\ Scale(l) <= Scale(r)

float_lt(l, r) == ~float_is_nan(l) /\ ~float_is_nan(r) /\ Scale(l) < Scale(r)

float_partial_ordering(l, r) ==
  IF float_is_nan(l) \/ float_is_nan(r) THEN "unordered"
  ELSE IF Scale(l) < Scale(r) THEN "less"
  ELSE IF Scale(l) = Scale(r) THEN "equivalent"
  ELSE "greater"

\* __private::float_clamp, called with min <= max and neither NaN
float_clamp(x, min, max) ==
  IF float_lt(x, min) THEN min
  ELSE IF float_lt(max, x) THEN max
  ELSE x

is_nan(s) == float_is_nan(s)

\* Mutant: the partial comparison of the primitives is returned.
total_cmp_partial(s, other) == Value(float_partial_ordering(s, other))

total_cmp(s, other) == Value(float_strong_ordering(s, other))

\* Mutant: the bounds are only checked for NaN.
clamp_unordered_bounds(s, min, max) ==
  IF ~(~is_nan(min) /\ ~is_nan(max)) THEN Panic
  ELSE Value(float_clamp(s, min, max))

clamp(s, min, max) ==
  IF ~(~is_nan(min) /\ ~is_nan(max) /\ float_le(min, max)) THEN Panic
  ELSE Value(float_clamp(s, min, max))

InitFloat ==
  /\ T = "f32"
  /\ self \in Floats
  /\ little = TRUE
  /\ pc = "start"
  /\ op = "none"
  /\ res = NoResult
  /\ bytes = NoBytes
  /\ order = "none"
  /\ ce = <<FALSE, FALSE>>
  /\ frame = NoFrame

InitTotalCmp ==
  /\ InitFloat
  /\ rhs \in Floats

TotalCmp == Call("total_cmp", total_cmp(self, rhs))

NextTotalCmp == TotalCmp

SpecTotalCmp == InitTotalCmp /\ [][NextTotalCmp]_vars

InitClamp ==
  /\ InitFloat
  /\ rhs \in [min : Floats, max : Floats]

Clamp == Call("clamp", clamp(self, rhs.min, rhs.max))

NextClamp == Clamp

SpecClamp == InitClamp /\ [][NextClamp]_vars

\* The place of a bit pattern in the documented sequence, from negative
\* quiet NaN (1) to positive quiet NaN (12)
PlaceOfPositive(x) ==
  IF x.exp = ExponentMax
  THEN IF x.mant = 0 THEN 10 ELSE IF x.mant >= QuietBit THEN 12 ELSE 11
  ELSE IF x.exp = 0
  THEN IF x.mant = 0 THEN 7 ELSE 8
  ELSE 9

Place(x) == IF x.sign = 1 THEN 13 - PlaceOfPositive(x) ELSE PlaceOfPositive(x)

\* C19: total_cmp is a strict total order over the bit patterns: two patterns
\* compare equal only when they are the same pattern, the comparison is
\* antisymmetric and transitive, and it follows the documented sequence from
\* negative quiet NaN, negative signaling NaN, negative infinity, negative
\* numbers, negative subnormals, -0, +0, positive subnormals, positive
\* numbers, positive infinity, positive signaling NaN to positive quiet NaN,
\* agreeing with < between numbers.
C19_TotalCmpStrictTotalOrder ==
  Done("total_cmp") =>
    /\ res.tag = "value"
    /\ res.value \in {"less", "equal", "greater"}
    /\ (res.value = "equal") <=> (self = rhs)
    /\ (res.value = "less") <=> (total_cmp(rhs, self).value = "greater")
    /\ \A z \in Floats :
         res.value = "less" /\ total_cmp(rhs, z).value = "less"
           => total_cmp(self, z).value = "less"
    /\ Place(self) < Place(rhs) => res.value = "less"
    /\ Place(self) > Place(rhs) => res.value = "greater"
    /\ float_lt(self, rhs) => res.value = "less"

C19_Witness ==
  /\ Done("total_cmp")
  /\ self = Float(1, 0, 0)
  /\ rhs = Float(0, 0, 0)
  /\ res = Value("less")

\* C20: x.clamp(min, max) aborts exactly when min > max, min is NaN or max is
\* NaN; otherwise it returns NaN when x is NaN, min when x < min, max when
\* x > max, and x otherwise.
C20_ClampAbortsIffBadBounds ==
  Done("clamp") =>
    IF float_lt(rhs.max, rhs.min) \/ Place(rhs.min) \in {1, 2, 11, 12}
       \/ Place(rhs.max) \in {1, 2, 11, 12}
    THEN res = Panic
    ELSE /\ res.tag = "value"
         /\ IF Place(self) \in {1, 2, 11, 12}
            THEN Place(res.value) \in {1, 2, 11, 12}
            ELSE IF Scale(self) < Scale(rhs.min) THEN res.value = rhs.min
            ELSE IF Scale(self) > Scale(rhs.max) THEN res.value = rhs.max
            ELSE res.value = self

C20_Witness ==
  /\ Done("clamp")
  /\ self = Float(0, ExponentMax, QuietBit)
  /\ rhs.min = Float(1, ExponentBias, 0)
  /\ rhs.max = Float(0, ExponentBias, 0)
  /\ res = Value(self)

-----------------------------------------------------------------------------
(* src/containers/array.h: the slice methods *)

\* The longest slice and the greatest element tried
MaxLen == 4

MaxElem == 2

Elems == 0..MaxElem

\* The slices: element i of a slice s of length n is s[i], i in 0..n-1
SliceIndices(n) == 0..(n - 1)

Slices == UNION {[SliceIndices(n) -> Elems] : n \in 0..MaxLen}

SliceLen(s) == Cardinality(DOMAIN s)

Orderings == {"less", "equal", "greater"}

\* p <=> x
ThreeWay(p, x) ==
  IF p < x THEN "less" ELSE IF p > x THEN "greater" ELSE "equal"

\* The comparators: every function of an element, a consistent order or not
Comparators == [Elems -> Orderings]

\* Result<usize, usize>
Ok(v) == [tag |-> "ok", value |-> v, overflow |-> FALSE]

Err(v) == [tag |-> "err", value |-> v, overflow |-> FALSE]

\* Mutant: size starts one above the length.
binary_search_by_oversized(s, f) ==
  [f |-> f, size |-> SliceLen(s) + 1, left |-> 0, right |-> SliceLen(s),
   mid |-> 0]

\* The locals of binary_search_by before the loop
binary_search_by_enter(s, f) ==
  [f |-> f, size |-> SliceLen(s), left |-> 0, right |-> SliceLen(s), mid |-> 0]

InLoop(fr) == [pc |-> "loop", frame |-> fr, res |-> NoResult]

Return(fr, r) == [pc |-> "done", frame |-> fr, res |-> r]

\* Mutant: the two halves are taken the wrong way round.
binary_search_by_swapped(s, fr) ==
  IF fr.left < fr.right
  THEN LET mid == fr.left + fr.size \div 2
           probed == [fr EXCEPT !.mid = mid]
       IN  IF mid \notin DOMAIN s THEN Return(probed, Undefined)
           ELSE IF fr.f[s[mid]] = "greater"
           THEN IF fr.right < mid + 1 THEN Return(probed, Panic)
                ELSE InLoop([probed EXCEPT !.left = mid + 1,
                                           !.size = fr.right - (mid + 1)])
           ELSE IF fr.f[s[mid]] = "less"
           THEN IF mid < fr.left THEN Return(probed, Panic)
                ELSE InLoop([probed EXCEPT !.right = mid,
                                           !.size = mid - fr.left])
           ELSE Return(probed, Ok(mid))
  ELSE Return(fr, Err(fr.left))

\* One evaluation of the loop condition of binary_search_by and the
\* iteration or the return that follows. get_unchecked outside the slice is
\* undefined; size = right - left aborts when it would be negative.
binary_search_by_step(s, fr) ==
  IF fr.left < fr.right
  THEN LET mid == fr.left + fr.size \div 2
           probed == [fr EXCEPT !.mid = mid]
       IN  IF mid \notin DOMAIN s THEN Return(probed, Undefined)
           ELSE IF fr.f[s[mid]] = "less"
           THEN IF fr.right < mid + 1 THEN Return(probed, Panic)
                ELSE InLoop([probed EXCEPT !.left = mid + 1,
                                           !.size = fr.right - (mid + 1)])
           ELSE IF fr.f[s[mid]] = "greater"
           THEN IF mid < fr.left THEN Return(probed, Panic)
                ELSE InLoop([probed EXCEPT !.right = mid,
                                           !.size = mid - fr.left])
           ELSE Return(probed, Ok(mid))
  ELSE Return(fr, Err(fr.left))

\* binary_search(x): binary_search_by with the comparator p <=> x
binary_search_comparator(x) == [p \in Elems |-> ThreeWay(p, x)]

\* The argument: a comparator f, or a value x to search for
ArgF(f) == [f |-> f]

ArgX(x) == [x |-> x]

InitSearch ==
  /\ T = "Slice"
  /\ self \in Slices
  /\ rhs \in {ArgF(f) : f \in Comparators} \cup {ArgX(x) : x \in Elems}
  /\ little = TRUE
  /\ pc = "start"
  /\ op = "none"
  /\ res = NoResult
  /\ bytes = NoBytes
  /\ order = "none"
  /\ ce = <<FALSE, FALSE>>
  /\ frame = NoFrame

Enter(name, fr) ==
  /\ pc = "start"
  /\ pc' = "loop"
  /\ op' = name
  /\ frame' = fr
  /\ UNCHANGED <<T, self, rhs, little, res, bytes, order, ce>>

BinarySearchBy ==
  /\ DOMAIN rhs = {"f"}
  /\ Enter("binary_search_by", binary_search_by_enter(self, rhs.f))

BinarySearch ==
  /\ DOMAIN rhs = {"x"}
  /\ Enter("binary_search",
           binary_search_by_enter(self, binary_search_comparator(rhs.x)))

BinarySearchStep ==
  /\ pc = "loop"
  /\ op \in {"binary_search_by", "binary_search"}
  /\ LET next == binary_search_by_step(self, frame)
     IN  /\ pc' = next.pc
         /\ frame' = next.frame
         /\ res' = next.res
  /\ UNCHANGED <<T, self, rhs, little, op, bytes, order, ce>>

NextSearch ==
  \/ BinarySearchBy
  \/ BinarySearch
  \/ BinarySearchStep

SpecSearch == InitSearch /\ [][NextSearch]_vars

\* The loop is scheduled until the call returns.
SpecSearchFair == SpecSearch /\ WF_vars(NextSearch)

Searching == op \in {"binary_search_by", "binary_search"}

Rank(o) == IF o = "less" THEN 0 ELSE IF o = "equal" THEN 1 ELSE 2

\* The slice is sorted consistently with f: the elements f calls less come
\* first, then those it calls equal, then those it calls greater.
SortedBy(s, f) ==
  \A i \in DOMAIN s : \A j \in DOMAIN s :
    i < j => Rank(f[s[i]]) <= Rank(f[s[j]])

\* C21: on a slice sorted consistently with the comparator f,
\* binary_search_by (and binary_search, with f = p <=> x) returns Ok(i) only
\* with i < len and f(self[i]) equal, and Err(i) only when no element
\* compares equal, with 0 <= i <= len, f less for every element before
\* index i and f greater for every element from index i on.
C21_BinarySearchResult ==
  pc = "done" /\ Searching /\ SortedBy(self, frame.f) =>
    \/ /\ res.tag = "ok"
       /\ res.value \in DOMAIN self
       /\ frame.f[self[res.value]] = "equal"
    \/ /\ res.tag = "err"
       /\ res.value >= 0
       /\ res.value <= SliceLen(self)
       /\ \A i \in DOMAIN self :
            /\ frame.f[self[i]] # "equal"
            /\ i < res.value => frame.f[self[i]] = "less"
            /\ i >= res.value => frame.f[self[i]] = "greater"

C21_Witness ==
  /\ Done("binary_search")
  /\ self = [i \in SliceIndices(3) |-> IF i = 0 THEN 0 ELSE 2]
  /\ rhs = ArgX(1)
  /\ res = Err(1)

\* What holds each time the loop condition is evaluated
LoopCondition ==
  /\ 0 <= frame.left
  /\ frame.left <= frame.right
  /\ frame.right <= SliceLen(self)
  /\ frame.size = frame.right - frame.left

\* What an iteration does: the probe is inside [left, right) and the slice,
\* and the range is narrower afterwards unless the call returned.
Iteration ==
  pc = "loop" /\ Searching /\ frame.left < frame.right =>
    /\ frame.left <= frame'.mid
    /\ frame'.mid < frame.right
    /\ frame'.mid < SliceLen(self)
    /\ res' \notin {Undefined, Panic}
    /\ pc' = "loop" =>
         frame'.right - frame'.left < frame.right - frame.left

\* C25: in binary_search_by, at every evaluation of the loop condition
\* 0 <= left <= right <= len and size = right - left; every probed index mid
\* satisfies left <= mid < right, so the unchecked access is in bounds;
\* right - left strictly decreases on every iteration that does not return,
\* and the call returns for every slice and every comparator, sorted input
\* or not.
C25_BinarySearchLoop ==
  /\ [](pc = "loop" /\ Searching => LoopCondition)
  /\ [][Iteration]_vars
  /\ <>(pc = "done")

C25_Witness ==
  /\ pc = "loop"
  /\ Searching
  /\ frame.left > 0
  /\ frame.right < SliceLen(self)
  /\ ~SortedBy(self, frame.f)

-----------------------------------------------------------------------------
(* src/sus/iter/adaptors/map.h: sus::ops::min and max *)

\* The greatest value an argument of min and max takes
MaxKey == 1

Keys == 0..MaxKey

\* An argument: a value the order looks at, and which argument it is, which
\* the order does not look at
Object(v, id) == [value |-> v, id |-> id]

\* compare(a, b) of min_by and max_by, and f(a) of min_by_key and max_by_key
CompareFns == [Keys \X Keys -> Orderings]

KeyFns == [Keys -> Keys]

\* a > b of an Ord type
Greater(a, b) == a.value > b.value

min(a, b) == IF Greater(a, b) THEN Value(b) ELSE Value(a)

min_by(a, b, compare) ==
  IF compare[a.value, b.value] = "greater" THEN Value(b) ELSE Value(a)

min_by_key(a, b, f) ==
  IF f[a.value] > f[b.value] THEN Value(b) ELSE Value(a)

\* Mutant: the first argument is returned on a tie.
max_first_on_tie(a, b) == IF ~Greater(b, a) THEN Value(a) ELSE Value(b)

max(a, b) == IF Greater(a, b) THEN Value(a) ELSE Value(b)

max_by(a, b, compare) ==
  IF compare[a.value, b.value] = "greater" THEN Value(a) ELSE Value(b)

max_by_key(a, b, f) ==
  IF f[a.value] > f[b.value] THEN Value(a) ELSE Value(b)

InitMinMax ==
  /\ T = "Ord"
  /\ self \in {Object(v, "a") : v \in Keys}
  /\ \E v \in Keys :
       rhs \in {[b |-> Object(v, "b")]}
                 \cup {[b |-> Object(v, "b"), compare |-> c] : c \in CompareFns}
                 \cup {[b |-> Object(v, "b"), f |-> f] : f \in KeyFns}
  /\ little = TRUE
  /\ pc = "start"
  /\ op = "none"
  /\ res = NoResult
  /\ bytes = NoBytes
  /\ order = "none"
  /\ ce = <<FALSE, FALSE>>
  /\ frame = NoFrame

Min == DOMAIN rhs = {"b"} /\ Call("min", min(self, rhs.b))

Max == DOMAIN rhs = {"b"} /\ Call("max", max(self, rhs.b))

MinBy ==
  /\ "compare" \in DOMAIN rhs
  /\ Call("min_by", min_by(self, rhs.b, rhs.compare))

MaxBy ==
  /\ "compare" \in DOMAIN rhs
  /\ Call("max_by", max_by(self, rhs.b, rhs.compare))

MinByKey ==
  /\ "f" \in DOMAIN rhs
  /\ Call("min_by_key", min_by_key(self, rhs.b, rhs.f))

MaxByKey ==
  /\ "f" \in DOMAIN rhs
  /\ Call("max_by_key", max_by_key(self, rhs.b, rhs.f))

NextMinMax ==
  \/ Min
  \/ Max
  \/ MinBy
  \/ MaxBy
  \/ MinByKey
  \/ MaxByKey

SpecMinMax == InitMinMax /\ [][NextMinMax]_vars

\* The order the call compared its arguments by found a greater than b
FirstIsGreater ==
  CASE op \in {"min", "max"} -> self.value > rhs.b.value
    [] op \in {"min_by", "max_by"} ->
         rhs.compare[self.value, rhs.b.value] = "greater"
    [] op \in {"min_by_key", "max_by_key"} ->
         rhs.f[self.value] > rhs.f[rhs.b.value]

\* C22: min(a, b) returns b only when a > b and otherwise a, the first
\* argument on a tie; max(a, b) returns a only when a > b and otherwise b,
\* the second argument on a tie; min_by, min_by_key, max_by and max_by_key
\* do the same under their comparison or key.
C22_MinMaxTieBreaking ==
  pc = "done" =>
    /\ res.tag = "value"
    /\ op \in {"min", "min_by", "min_by_key"} =>
         res.value = IF FirstIsGreater THEN rhs.b ELSE self
    /\ op \in {"max", "max_by", "max_by_key"} =>
         res.value = IF FirstIsGreater THEN self ELSE rhs.b

C22_Witness ==
  /\ Done("max")
  /\ self.value = rhs.b.value
  /\ res.value.id = "b"

-----------------------------------------------------------------------------
(* ends_with *)

\* usize operator-: the default operator aborts when the difference would be
\* negative
usize_sub(a, b) == IF b > a THEN Panic ELSE Value(a - b)

\* get_range_unchecked(RangeFrom(start)): the elements from start on
get_range_unchecked(s, start) ==
  [i \in SliceIndices(SliceLen(s) - start) |-> s[start + i]]

\* Slice operator==: the same length and the same elements
slice_eq(a, b) ==
  /\ SliceLen(a) = SliceLen(b)
  /\ \A i \in DOMAIN a : a[i] = b[i]

\* m - n is evaluated for sub before m >= n is tested
ends_with(s, suffix) ==
  LET m == SliceLen(s)
      n == SliceLen(suffix)
      offset == usize_sub(m, n)
  IN  IF offset = Panic THEN Panic
      ELSE LET sub == get_range_unchecked(s, offset.value)
           IN  Value(m >= n /\ slice_eq(suffix, sub))

InitEndsWith ==
  /\ T = "Slice"
  /\ self \in Slices
  /\ rhs \in Slices
  /\ little = TRUE
  /\ pc = "start"
  /\ op = "none"
  /\ res = NoResult
  /\ bytes = NoBytes
  /\ order = "none"
  /\ ce = <<FALSE, FALSE>>
  /\ frame = NoFrame

EndsWith == Call("ends_with", ends_with(self, rhs))

NextEndsWith == EndsWith

SpecEndsWith == InitEndsWith /\ [][NextEndsWith]_vars

\* The last n elements of s are the elements of suffix, n its length
IsSuffix(suffix, s) ==
  /\ SliceLen(suffix) <= SliceLen(s)
  /\ \A i \in DOMAIN suffix :
       suffix[i] = s[SliceLen(s) - SliceLen(suffix) + i]

\* C23: s.ends_with(suffix) returns true exactly when the suffix is no
\* longer than s and the last elements of s equal it element by element;
\* when the suffix is longer it returns false and does not abort.
C23_EndsWith ==
  Done("ends_with") => res = Value(IsSuffix(rhs, self))

-----------------------------------------------------------------------------
(* The loop of checked_log, one iteration at a time *)

\* Mutant: a base of 1 is let through.
checked_log_enter_base_one(s, base) ==
  IF s <= 0 \/ base <= 0 THEN Return(NoFrame, None)
  ELSE InLoop([n |-> 0, r |-> s, b |-> base])

\* checked_log up to the loop: none, or the locals n, r and b
checked_log_enter(s, base) ==
  IF s <= 0 \/ base <= 1 THEN Return(NoFrame, None)
  ELSE InLoop([n |-> 0, r |-> s, b |-> base])

\* One evaluation of r >= b and the iteration or the return that follows
checked_log_step(fr) ==
  IF fr.r >= fr.b
  THEN InLoop([fr EXCEPT !.r = PrimDiv(fr.r, fr.b), !.n = fr.n + 1])
  ELSE Return(fr, Some(fr.n))

CheckedLogEnter ==
  /\ pc = "start"
  /\ op' = "checked_log"
  /\ LET next == checked_log_enter(self, rhs)
     IN  /\ pc' = next.pc
         /\ frame' = next.frame
         /\ res' = next.res
  /\ UNCHANGED <<T, self, rhs, little, bytes, order, ce>>

CheckedLogStep ==
  /\ pc = "loop"
  /\ op = "checked_log"
  /\ LET next == checked_log_step(frame)
     IN  /\ pc' = next.pc
         /\ frame' = next.frame
         /\ res' = next.res
  /\ UNCHANGED <<T, self, rhs, little, op, bytes, order, ce>>

NextLogLoop ==
  \/ CheckedLogEnter
  \/ CheckedLogStep

SpecLogLoop == InitBinary /\ [][NextLogLoop]_vars

\* The loop is scheduled until the call returns.
SpecLogLoopFair == SpecLogLoop /\ WF_vars(NextLogLoop)

\* An iteration divides r, which stays at least 1, and counts itself in n.
LogIteration ==
  pc = "loop" /\ pc' = "loop" =>
    /\ frame'.n = frame.n + 1
    /\ frame'.r < frame.r
    /\ frame'.r >= 1

\* C24: for self > 0 and base >= 2 the division loop of checked_log returns
\* after exactly n iterations, n the value returned, with n <= BITS - 1, so
\* the u32 counter never overflows, and the running value r at least 1
\* throughout.
C24_LogLoopTerminates ==
  /\ [](pc = "loop" =>
          /\ self > 0 /\ rhs >= 2
          /\ frame.r >= 1
          /\ frame.n >= 0 /\ frame.n <= BITS - 1
          /\ frame.n < IntMax)
  /\ [][LogIteration]_vars
  /\ [](pc = "done" /\ self > 0 /\ rhs >= 2 =>
          /\ res = Some(frame.n)
          /\ res.value <= BITS - 1
          /\ IsFloorLog(res.value, rhs, self))
  /\ <>(pc = "done")

C24_Witness ==
  /\ Done("checked_log")
  /\ self = MAX_PRIMITIVE
  /\ rhs = 2
  /\ frame.n = BITS - 2
  /\ frame.r = 1

-----------------------------------------------------------------------------
(* src/sus/containers/iterators/vec_iter.h: VecIntoIter *)

\* An item that was moved out of the Vec
Moved == -1

\* VecIntoIter(Vec&& vec): the members in the order they are initialized
VecIntoIter(vec) ==
  [vec_ |-> vec, front_index_ |-> 0, back_index_ |-> SliceLen(vec)]

\* get_unchecked_mut(i) and the move out of the item: the item is returned
\* and the Vec keeps a moved-from item; undefined outside the Vec
take_item(it, i) ==
  IF i \in DOMAIN it.vec_
  THEN [res |-> Some(it.vec_[i]), vec_ |-> [it.vec_ EXCEPT ![i] = Moved]]
  ELSE [res |-> Undefined, vec_ |-> it.vec_]

\* Mutant: the front runs to the end of the Vec, not to back_index_.
next_to_end(it) ==
  IF it.front_index_ = SliceLen(it.vec_) THEN [res |-> None, it |-> it]
  ELSE LET taken == take_item(it, it.front_index_)
       IN  [res |-> taken.res,
            it |-> [it EXCEPT !.front_index_ = it.front_index_ + 1,
                              !.vec_ = taken.vec_]]

next(it) ==
  IF it.front_index_ = it.back_index_ THEN [res |-> None, it |-> it]
  ELSE LET taken == take_item(it, it.front_index_)
       IN  [res |-> taken.res,
            it |-> [it EXCEPT !.front_index_ = it.front_index_ + 1,
                              !.vec_ = taken.vec_]]

next_back(it) ==
  IF it.front_index_ = it.back_index_ THEN [res |-> None, it |-> it]
  ELSE IF usize_sub(it.back_index_, 1) = Panic THEN [res |-> Panic, it |-> it]
  ELSE LET taken == take_item(it, it.back_index_ - 1)
       IN  [res |-> taken.res,
            it |-> [it EXCEPT !.back_index_ = it.back_index_ - 1,
                              !.vec_ = taken.vec_]]

\* SizeHint(lower, upper)
SizeHint(lower, upper) == Value([lower |-> lower, upper |-> upper])

size_hint(it) ==
  LET remaining == usize_sub(it.back_index_, it.front_index_)
  IN  IF remaining = Panic THEN [res |-> Panic, it |-> it]
      ELSE [res |-> SizeHint(remaining.value, Some(remaining.value)),
            it |-> it]

exact_size_hint(it) ==
  [res |-> usize_sub(it.back_index_, it.front_index_), it |-> it]

InitIter ==
  /\ T = "VecIntoIter"
  /\ self \in {VecIntoIter(vec) : vec \in Slices}
  /\ rhs = 0
  /\ little = TRUE
  /\ pc = "start"
  /\ op = "none"
  /\ res = NoResult
  /\ bytes = NoBytes
  /\ order = "none"
  /\ ce = <<FALSE, FALSE>>
  /\ frame = NoFrame

\* A call on the iterator; another call may follow it.
IterCall(name, out) ==
  /\ pc' = "done"
  /\ op' = name
  /\ res' = out.res
  /\ self' = out.it
  /\ UNCHANGED <<T, rhs, little, bytes, order, ce, frame>>

IterNext == IterCall("next", next(self))

IterNextBack == IterCall("next_back", next_back(self))

IterSizeHint == IterCall("size_hint", size_hint(self))

IterExactSizeHint == IterCall("exact_size_hint", exact_size_hint(self))

NextIter ==
  \/ IterNext
  \/ IterNextBack
  \/ IterSizeHint
  \/ IterExactSizeHint

SpecIter == InitIter /\ [][NextIter]_vars

\* back_index_ - front_index_
Remaining == self.back_index_ - self.front_index_

\* The indices are in order and inside the Vec, and the items not yet
\* yielded are exactly those between them: each item is yielded once.
IterInvariant ==
  /\ 0 <= self.front_index_
  /\ self.front_index_ <= self.back_index_
  /\ self.back_index_ <= SliceLen(self.vec_)
  /\ \A i \in DOMAIN self.vec_ :
       (self.vec_[i] = Moved)
         <=> (i < self.front_index_ \/ i >= self.back_index_)
  /\ op = "size_hint" => res = SizeHint(Remaining, Some(Remaining))
  /\ op = "exact_size_hint" => res = Value(Remaining)

\* next() yields the item at front_index_ and moves the front up by one,
\* next_back() yields the item below back_index_ and moves the back down by
\* one; with no item left both return none and change nothing.
IterStep ==
  /\ op' = "next" /\ self.front_index_ # self.back_index_ =>
       /\ res' = Some(self.vec_[self.front_index_])
       /\ res'.value # Moved
       /\ self'.front_index_ = self.front_index_ + 1
       /\ self'.back_index_ = self.back_index_
  /\ op' = "next_back" /\ self.front_index_ # self.back_index_ =>
       /\ res' = Some(self.vec_[self.back_index_ - 1])
       /\ res'.value # Moved
       /\ self'.back_index_ = self.back_index_ - 1
       /\ self'.front_index_ = self.front_index_
  /\ op' \in {"next", "next_back"} /\ self.front_index_ = self.back_index_ =>
       /\ res' = None
       /\ self' = self

\* C26: for a VecIntoIter over a Vec of length L, under every interleaving
\* of next() and next_back(): 0 <= front_index <= back_index <= L; next()
\* yields the indices upwards from 0 and next_back() downwards from L - 1,
\* so no item is yielded twice and L items are yielded in all;
\* exact_size_hint() and both bounds of size_hint() are
\* back_index - front_index; once front_index = back_index every further
\* call returns none and changes no state.
C26_VecIntoIter ==
  /\ [](T = "VecIntoIter" => IterInvariant)
  /\ [][IterStep]_vars

C26_Witness ==
  /\ Done("next")
  /\ res = None
  /\ SliceLen(self.vec_) = MaxLen
  /\ self.front_index_ = 2
  /\ self.back_index_ = 2

-----------------------------------------------------------------------------
(* repeat *)

\* The greatest number of repetitions tried
MaxRepeat == 6

\* Vec::reserve(capacity) on an empty Vec: the storage, nothing written yet
reserve(capacity) == [i \in SliceIndices(capacity) |-> Uninit]

\* ptr::copy_nonoverlapping(buf, buf + dst, count) inside the storage of
\* capacity slots of which the first len are initialized: undefined when it
\* writes past the capacity, reads past len or the two ranges overlap
copy_nonoverlapping(buf, len, dst, count) ==
  IF dst + count > SliceLen(buf) \/ count > len \/ (count > 0 /\ count > dst)
  THEN Undefined
  ELSE Value([i \in DOMAIN buf |->
                IF i >= dst /\ i < dst + count THEN buf[i - dst] ELSE buf[i]])

\* The Vec returned: the first len slots of the storage
VecOf(buf, len) == [i \in SliceIndices(len) |-> buf[i]]

\* Mutant: the doubling loop starts from n, not from n >> 1.
repeat_enter_unshifted(s, n) ==
  IF n = 0 THEN Return(NoFrame, Value(VecOf(reserve(0), 0)))
  ELSE LET l == SliceLen(s)
           capacity == l * n
           buf == [i \in SliceIndices(capacity) |->
                     IF i < l THEN s[i] ELSE Uninit]
       IN  InLoop([buf |-> buf, len |-> l, capacity |-> capacity,
                   m |-> n, iterations |-> 0])

\* repeat up to the doubling loop: the empty Vec for n = 0; otherwise the
\* storage of l * n slots (the saturating product, exact for the lengths
\* tried) with one copy of the slice, and m = n >> 1. iterations counts the
\* iterations of the loop and is not a variable of the program.
repeat_enter(s, n) ==
  IF n = 0 THEN Return(NoFrame, Value(VecOf(reserve(0), 0)))
  ELSE LET l == SliceLen(s)
           capacity == l * n
           buf == [i \in SliceIndices(capacity) |->
                     IF i < l THEN s[i] ELSE reserve(capacity)[i]]
       IN  InLoop([buf |-> buf, len |-> l, capacity |-> capacity,
                   m |-> n \div 2, iterations |-> 0])

\* One evaluation of m > 0: an iteration that doubles the buffer, or the
\* copy of the remaining repetitions and the return
repeat_step(fr) ==
  IF fr.m > 0
  THEN LET copied == copy_nonoverlapping(fr.buf, fr.len, fr.len, fr.len)
       IN  IF copied = Undefined THEN Return(fr, Undefined)
           ELSE InLoop([fr EXCEPT !.buf = copied.value,
                                  !.len = fr.len * 2,
                                  !.m = fr.m \div 2,
                                  !.iterations = fr.iterations + 1])
  ELSE LET rem_len == usize_sub(fr.capacity, fr.len)
       IN  IF rem_len = Panic THEN Return(fr, Panic)
           ELSE IF rem_len.value > 0
           THEN LET copied == copy_nonoverlapping(fr.buf, fr.len, fr.len,
                                                  rem_len.value)
                IN  IF copied = Undefined THEN Return(fr, Undefined)
                    ELSE Return(fr, Value(VecOf(copied.value, fr.capacity)))
           ELSE Return(fr, Value(VecOf(fr.buf, fr.len)))

InitRepeat ==
  /\ T = "Slice"
  /\ self \in Slices
  /\ rhs \in 0..MaxRepeat
  /\ little = TRUE
  /\ pc = "start"
  /\ op = "none"
  /\ res = NoResult
  /\ bytes = NoBytes
  /\ order = "none"
  /\ ce = <<FALSE, FALSE>>
  /\ frame = NoFrame

RepeatEnter ==
  /\ pc = "start"
  /\ op' = "repeat"
  /\ LET entered == repeat_enter(self, rhs)
     IN  /\ pc' = entered.pc
         /\ frame' = entered.frame
         /\ res' = entered.res
  /\ UNCHANGED <<T, self, rhs, little, bytes, order, ce>>

RepeatStep ==
  /\ pc = "loop"
  /\ op = "repeat"
  /\ LET stepped == repeat_step(frame)
     IN  /\ pc' = stepped.pc
         /\ frame' = stepped.frame
         /\ res' = stepped.res
  /\ UNCHANGED <<T, self, rhs, little, op, bytes, order, ce>>

NextRepeat ==
  \/ RepeatEnter
  \/ RepeatStep

SpecRepeat == InitRepeat /\ [][NextRepeat]_vars

\* k = floor(log2 n)
IsFloorLog2(k, n) == k >= 0 /\ Pow2(k) <= n /\ n < Pow2(k + 1)

-----------------------------------------------------------------------------
(* sqrt, acos, asin, asinh *)

\* The NAN macro of <cmath>: a positive quiet NaN
NAN == Float(0, ExponentMax, QuietBit)

\* _primitive{1}, _primitive{-1} and -_primitive{0}
One == Float(0, ExponentBias, 0)
MinusOne == Float(1, ExponentBias, 0)
MinusZero == Float(1, 0, 0)

\* What a function of <cmath> may return: a NaN for a NaN or an argument
\* outside the function's domain, a value that is not a NaN otherwise
MathResults(in_domain) ==
  IF in_domain THEN {y \in Floats : ~float_is_nan(y)} ELSE {NAN}

std_sqrt(x) == MathResults(~float_is_nan(x) /\ ~float_lt(x, MinusZero))
std_acos(x) == MathResults(float_le(MinusOne, x) /\ float_le(x, One))
std_asin(x) == MathResults(float_le(MinusOne, x) /\ float_le(x, One))
std_asinh(x) == MathResults(~float_is_nan(x))

\* The methods; std is what the function of <cmath> returns for s
acos(s, std) ==
  IF float_lt(s, MinusOne) \/ float_lt(One, s) THEN Value(NAN) ELSE Value(std)

asin(s, std) ==
  IF float_lt(s, MinusOne) \/ float_lt(One, s) THEN Value(NAN) ELSE Value(std)

asinh(s, std) ==
  IF float_lt(s, MinusOne) THEN Value(NAN) ELSE Value(std)

sqrt(s, std) ==
  IF float_lt(s, MinusZero) THEN Value(NAN) ELSE Value(std)

InitDomain ==
  /\ InitFloat
  /\ rhs = 0

Acos == \E std \in std_acos(self) : Call("acos", acos(self, std))
Asin == \E std \in std_asin(self) : Call("asin", asin(self, std))
Asinh == \E std \in std_asinh(self) : Call("asinh", asinh(self, std))
Sqrt == \E std \in std_sqrt(self) : Call("sqrt", sqrt(self, std))

NextDomain ==
  \/ Acos
  \/ Asin
  \/ Asinh
  \/ Sqrt

SpecDomain == InitDomain /\ [][NextDomain]_vars

\* The receiver is a number, and it is at least lo and at most hi
Within(lo, x, hi) ==
  /\ ~float_is_nan(x)
  /\ Scale(lo) <= Scale(x)
  /\ Scale(x) <= Scale(hi)

\* C28: the float functions return NaN exactly outside their mathematical
\* domain: sqrt for every input below zero but not for -0.0, acos and asin
\* for every input outside [-1, 1], asinh only when the input is NaN.
C28_NanOutsideDomain ==
  /\ Done("sqrt") =>
       (float_is_nan(res.value) <=> float_is_nan(self) \/ Scale(self) < 0)
  /\ Done("acos") =>
       (float_is_nan(res.value) <=> ~Within(MinusOne, self, One))
  /\ Done("asin") =>
       (float_is_nan(res.value) <=> ~Within(MinusOne, self, One))
  /\ Done("asinh") =>
       (float_is_nan(res.value) <=> float_is_nan(self))

\* The part of C28 that the methods keep: sqrt, acos and asin
C28_SqrtAcosAsin ==
  /\ Done("sqrt") =>
       (float_is_nan(res.value) <=> float_is_nan(self) \/ Scale(self) < 0)
  /\ Done("acos") =>
       (float_is_nan(res.value) <=> ~Within(MinusOne, self, One))
  /\ Done("asin") =>
       (float_is_nan(res.value) <=> ~Within(MinusOne, self, One))

\* asinh returns NaN for a number below -1
C28_AsinhBelowMinusOne ==
  /\ Done("asinh")
  /\ ~float_is_nan(self)
  /\ Scale(self) < Scale(MinusOne)
  /\ float_is_nan(res.value)

-----------------------------------------------------------------------------
(* operator>>, operator>>= and operator<< on the bit pattern *)

\* l shifted right by k with zeros shifted in, as the claim writes it
LogicalShr(l, k) ==
  IF l < 0 THEN (l + Pow2(BITS)) \div Pow2(k) ELSE l \div Pow2(k)

\* u, a number below 2^BITS, read as a two's complement value
AsTwosComplement(u) == IF u >= Pow2(BITS - 1) THEN u - Pow2(BITS) ELSE u

ShiftStep ==
  pc = "start" /\ pc' = "done" /\ rhs < BITS =>
    /\ op' = "operator>>" =>
         /\ res'.tag = "value"
         /\ self >= 0 \/ rhs >= 1 => res'.value = LogicalShr(self, rhs)
         /\ rhs >= 1 => res'.value >= 0
    /\ op' = "operator>>=" =>
         /\ res' = Void
         /\ self >= 0 \/ rhs >= 1 => self' = LogicalShr(self, rhs)
         /\ rhs >= 1 => self' >= 0
    /\ op' = "operator<<" =>
         /\ res'.tag = "value"
         /\ res'.value = AsTwosComplement((self * Pow2(rhs)) % Pow2(BITS))

\* C29: for rhs < BITS, operator>> and operator>>= shift the two's complement
\* bit pattern with zeros shifted in: a negative l shifted by rhs >= 1 gives
\* the non-negative (l + 2^BITS) div 2^rhs, a non-negative l gives
\* l div 2^rhs; operator<< returns (l * 2^rhs) mod 2^BITS read as two's
\* complement and does not abort, whatever bits are shifted out.
C29_ShiftsAreLogical == [][ShiftStep]_vars

C29_Witness ==
  /\ Done("operator>>")
  /\ self < 0
  /\ rhs = 1
  /\ res.tag = "value"
  /\ res.value = (self + Pow2(BITS)) \div 2
  /\ res.value > 0

-----------------------------------------------------------------------------
(* checked_log(2) and checked_log2 *)

\* The zero bits above the highest set bit of v > 0 in BITS bits
LeadingZeros(v) == Cardinality({i \in 0..(BITS - 1) : Pow2(i) > v})

\* C30: for every v > 0, checked_log(2) and checked_log2() both return
\* some(BITS - 1 - leading_zeros(v)); for every v <= 0 both return none.
C30_LogOfTwoIsLog2 ==
  /\ Done("checked_log") /\ rhs = 2 =>
       /\ res = checked_log2(self)
       /\ res = IF self > 0 THEN Some(BITS - 1 - LeadingZeros(self)) ELSE None
  /\ Done("checked_log2") =>
       /\ res = checked_log(self, 2)
       /\ res = IF self > 0 THEN Some(BITS - 1 - LeadingZeros(self)) ELSE None

C30_Witness ==
  /\ Done("checked_log")
  /\ rhs = 2
  /\ self = 5
  /\ res = Some(2)
  /\ res = checked_log2(self)
  /\ LeadingZeros(self) = BITS - 3

====
